---- MODULE Spec2Model ----
(***************************************************************************)
(* genimg: the cancellable generation / prompt-optimization calls, the     *)
(* CLI and GUI operations that drive them, and the prompt cache.           *)
(*                                                                         *)
(* Python values:                                                          *)
(*   Optional[str]   <<>> is None, <<s>> is the string s                   *)
(*   exceptions      the class name as a string                            *)
(***************************************************************************)
EXTENDS Integers, Sequences, FiniteSets, TLC

VARIABLES
    \* ---- one cancellable call (the controller thread and its worker) ----
    kind,            \* which function is running, "none" when no call
    cb,              \* cancel_check: "none" (None), "free" (caller's own), "cli", "gui"
    ctl,             \* controller position
    worker,          \* worker thread position
    result_holder,   \* result_holder[0]
    exc_holder,      \* exc_holder[0]
    process_holder,  \* process_holder[0] is not None
    proc,            \* the ollama subprocess of the operation: none/running/exited
    returncode,      \* its exit status once it has exited
    stdout,          \* its output once it has exited
    termSent,        \* SIGTERM was sent to it
    killSent,        \* SIGKILL was sent to it
    outcome,         \* what the call raised or "result"; "none" while running
    retval,          \* the returned value when outcome = "result"
    \* ---- what the controller has seen in this call ----
    observedTrue,    \* a poll got True from cancel_check()
    sawDead,         \* is_alive() returned False
    checkedThisPoll, \* cancel_check() was called since the last join
    firstDetected,   \* "timeout" / "cancel": which the controller detected first
    flagAtExit,      \* the caller's flag when the worker thread ended
    checkRaised,     \* the exceptions cancel_check() has raised
    escaped,         \* the exception of cancel_check() that reached the caller
    \* ---- the CLI / GUI operation around the calls ----
    opType,          \* "none", "lib", "cli_generate", "gui_generate", "gui_optimize"
    opStage,         \* position of the operation
    opOptimize,      \* the operation runs the optimization stage
    opForce,         \* the optimization stage is called with enable_cache=False
    opTriple,        \* (prompt, model, reference_hash) of the operation
    optOutcome,      \* how the optimization stage ended, "none" before
    opOutcome,       \* how the operation ended
    nOps,            \* operations started so far
    cliFlag,         \* cli.handlers._cancel_event
    guiFlag,         \* ui.gradio_app._cancel_event
    sigintInstalled, \* handle_sigint is the SIGINT handler
    trigAfterReset,  \* a trigger arrived since the operation cleared its flag
    staleAtStart,    \* the flag was still set when the operation started
    \* ---- prompt cache ----
    cache,           \* PromptCache._cache: key -> optimized prompt
    lastSet,         \* the last set(): <<triple, value>>, <<>> when none
    lastGet,         \* the last get(): <<triple, result>>, <<>> when none
    everSet,         \* triples passed to set() since the last clear()
    cacheOps,        \* cache calls made so far
    \* ---- the three loops driven by one sequence of events ----
    lockCtl,         \* kind -> controller position / outcome
    lockPoll,        \* kind -> poll at which the outcome was reached
    lockTrace,       \* the events so far
    \* ---- provider registry (core/providers) used by threads ----
    registry,        \* registry._registry: 0 is None, else the index of the instance
    regHeap,         \* the ProviderRegistry instances: each its _impls, in dict order
    builtins_registered,  \* providers._builtins_registered
    regPc,           \* thread -> position in get_registry()
    regLocal,        \* thread -> its local `reg` (0 before it has one)
    regSawNone,      \* thread -> the outcome of its `_registry is None` test
    regReturned,     \* what get_registry() calls returned: <<instance, its ids>>
    builtinRegs,     \* register() calls made by _register_builtins so far
    regHistory,      \* instance -> id -> the implementations registered, in order
    regResult,       \* the last get() / provider_ids(): <<op, instance, id, result>>
    regCalls,        \* get_registry() calls started
    regOps,          \* register / get / provider_ids calls made by callers
    \* ---- get_cache() used by threads ----
    global_cache,    \* cache._global_cache: 0 is None, else the index of the instance
    gcHeap,          \* the PromptCache instances: each its _cache
    gcPc,            \* thread -> position in get_cache()
    gcLocal,         \* thread -> the cache it got (0 before)
    gcSawNone,       \* thread -> the outcome of its `_global_cache is None` test
    gcExpect,        \* key -> value of the completed set() calls since the last clear()
    gcResult,        \* the last get() / size(): <<op, key, result>>
    gcOps,           \* set / get / clear / size calls made
    gcCalls,         \* get_cache() calls started
    \* ---- one generation request from its entry point to the HTTP request ----
    ePath,           \* "cli", "gui" or "lib" (a direct generate_image call); "none" before
    ePc,             \* position in the entry path
    ePrompt,         \* the prompt, a sequence of characters
    eReference,      \* a reference image was supplied
    eUseDesc,        \* use_reference_description / use_description
    eProvider,       \* the resolved provider id
    eApiKeyArg,      \* generate_image's api_key argument (None or a key)
    eCfgKey,         \* config.openrouter_api_key
    eCb,             \* a cancel_check was passed
    eRefSent,        \* reference_image_b64 passed to generate_image is not None
    eProcessed,      \* process_reference_image was called
    eProviderCalled, \* a provider's generate (or the request code) was entered
    eHttp,           \* an HTTP request was issued
    eThread,         \* a worker thread was started
    eOutcome,        \* the exception raised, "result", or "none" while running
    eField,          \* the field of the ValidationError, "" otherwise
    eNamed,          \* the provider id the error message names, "" when none
    eCalls,          \* requests started
    \* ---- one HTTP request of a generation call and its response ----
    qKind,           \* generate_image, OpenRouterProvider or OllamaProvider
    qPc,             \* position: idle, build, post, status, parse, done
    qCb,             \* a cancel_check was passed (the request runs in the worker)
    qRef,            \* reference_image_b64: None, "" or a base64 string
    qImagePart,      \* the payload sent has an image part
    qStatus,         \* response.status_code, 0 before the response
    qCtype,          \* the Content-Type the backend sent, as a record
    qBody,           \* what the response body holds
    qOutcome,        \* the exception raised, "result", or "none" while running
    qStatusCode,     \* APIError.status_code: None or the code
    qFormat,         \* GenerationResult.format, <<>> when no result
    qHadRef,         \* GenerationResult.had_reference
    qCalls,          \* requests started
    \* ---- one Config object and the calls made on it ----
    cfg,             \* the Config: its fields, NoConfig before it is constructed
    cfgPrev,         \* the Config as it was before the last call
    cfgLast,         \* the last call: <<method, argument>>, <<>> when none
    cfgRaised,       \* what the last call raised, "none" when it returned
    cfgOps,          \* calls made on the Config
    \* ---- GUI sessions (browser tabs) served by one process ----
    sessOp,          \* session -> "idle", "generate", "optimize": its running operation
    sessEnd,         \* session -> how its last operation ended, "none" before
    sessStopped,     \* session -> Stop was clicked in it during its running operation
    sessClicks,      \* Generate / Optimize clicks so far
    \* ---- the Optimized-prompt box of one GUI session and its handlers ----
    prompt_tb,       \* the Prompt textbox
    ref_image,       \* the reference image, by its hash: None when there is none
    optimize_cb,     \* the Optimize checkbox
    optimized_tb,    \* the Optimized-prompt textbox
    optimized_for_state, \* the gr.State: <<prompt, ref_hash>> the box was produced for
    boxPc,           \* the running handler: idle, optimizing, generating, opt_only
    gsPrompt,        \* the handler's prompt argument
    gsRefHash,       \* its ref_hash
    gsOptText,       \* its opt_text argument: the box as it was at the click
    gsBoxValue,      \* its box_value
    gsState,         \* its state
    gsEffective,     \* its effective_prompt
    boxBranch,       \* the branch the last Generate took: box, optimize, raw, "none"
    boxOptimizeOn,   \* the optimize argument of the last Generate
    boxMatched,      \* state_matches of the last Generate
    boxSent,         \* the prompt the last Generate passed to generate_image, None before
    boxSentFor,      \* the <<prompt, ref_hash>> of the last Generate
    boxClicks        \* Generate / Optimize clicks so far

callVars == <<kind, cb, ctl, worker, result_holder, exc_holder, process_holder,
              outcome, retval>>
procVars == <<proc, returncode, stdout, termSent, killSent>>
seenVars == <<observedTrue, sawDead, checkedThisPoll, firstDetected, flagAtExit,
              checkRaised, escaped>>
opVars   == <<opType, opStage, opOptimize, opForce, opTriple, optOutcome, opOutcome, nOps>>
flagVars == <<cliFlag, guiFlag, sigintInstalled, trigAfterReset, staleAtStart>>
cacheVars == <<cache, lastSet, lastGet, everSet, cacheOps>>
lockVars == <<lockCtl, lockPoll, lockTrace>>
regVars == <<registry, regHeap, builtins_registered, regPc, regLocal, regSawNone,
             regReturned, builtinRegs, regHistory, regResult, regCalls, regOps>>
gcVars == <<global_cache, gcHeap, gcPc, gcLocal, gcSawNone, gcExpect, gcResult, gcOps,
            gcCalls>>
entryVars == <<ePath, ePc, ePrompt, eReference, eUseDesc, eProvider, eApiKeyArg, eCfgKey,
               eCb, eRefSent, eProcessed, eProviderCalled, eHttp, eThread, eOutcome,
               eField, eNamed, eCalls>>
reqVars == <<qKind, qPc, qCb, qRef, qImagePart, qStatus, qCtype, qBody, qOutcome,
             qStatusCode, qFormat, qHadRef, qCalls>>
cfgVars == <<cfg, cfgPrev, cfgLast, cfgRaised, cfgOps>>
sessVars == <<sessOp, sessEnd, sessStopped, sessClicks>>
boxVars == <<prompt_tb, ref_image, optimize_cb, optimized_tb, optimized_for_state, boxPc,
             gsPrompt, gsRefHash, gsOptText, gsBoxValue, gsState, gsEffective,
             boxBranch, boxOptimizeOn, boxMatched, boxSent, boxSentFor, boxClicks>>
vars == <<callVars, procVars, seenVars, opVars, flagVars, cacheVars, lockVars,
          regVars, gcVars, entryVars, reqVars, cfgVars, sessVars, boxVars>>

----------------------------------------------------------------------------
\* Bounds of the model

MaxOps == 2          \* operations in one behaviour
MaxLockPolls == 3    \* polls of the lock-step run
MaxCacheOps == 3     \* set/get/clear calls in one cache behaviour
MaxRegCalls == 3     \* get_registry() calls in one behaviour
MaxRegOps == 3       \* register/get/provider_ids calls in one behaviour
MaxGcCalls == 3      \* get_cache() calls in one behaviour
MaxGcOps == 3        \* set/get/clear/size calls in one behaviour
MaxEntryCalls == 1   \* generation requests in one behaviour
MaxReqCalls == 1     \* HTTP requests in one behaviour
MaxCfgOps == 3       \* calls made on one Config
MaxSessClicks == 4   \* Generate / Optimize clicks in one behaviour
MaxBoxClicks == 3    \* Generate / Optimize clicks of the session with the box

Threads == {1, 2}

None == <<>>
Some(s) == <<s>>

HttpKinds == {"generate_image", "openrouter", "ollama"}
Kinds == HttpKinds \cup {"optimize"}

\* What one call of cancel_check() can do.
CancelOutcomes == {"false", "true", "KeyboardInterrupt", "Exception", "CancellationError"}

\* What the HTTP worker can end with (requests' errors already mapped).
HttpWorkerErrors == {"RequestTimeoutError", "NetworkError", "APIError"}

Stdouts == {"", " ", "opt"}
ExitCodes == {0, 1}

----------------------------------------------------------------------------
\* Prompt cache (utils/cache.py)

Prompts == {"cat", "dog"}
Models == {"m", "n"}
RefHashes == {None, Some(""), Some("h")}
Values == {"v", "w"}
Triples == Prompts \X Models \X RefHashes

\* `if reference_hash:` -- None and "" are both falsy
Truthy(opt) == IF opt = None THEN FALSE ELSE opt[1] # ""

\* hashlib.sha256(...).hexdigest(): distinct strings give distinct digests
Sha256(s) == [sha256 |-> s]

GenerateKey(prompt, model, reference_hash) ==
    LET key_parts == IF Truthy(reference_hash)
                     THEN <<prompt, model, reference_hash[1]>>
                     ELSE <<prompt, model>>
        key_string == IF Len(key_parts) = 3
                      THEN key_parts[1] \o "|" \o key_parts[2] \o "|" \o key_parts[3]
                      ELSE key_parts[1] \o "|" \o key_parts[2]
    IN  Sha256(key_string)

\* self._cache.get(key)
CacheLookup(c, prompt, model, reference_hash) ==
    LET key == GenerateKey(prompt, model, reference_hash)
    IN  IF key \in DOMAIN c THEN Some(c[key]) ELSE None

\* A cache of one entry: storing a key drops the others
CacheStore_Evicting(c, prompt, model, optimized_prompt, reference_hash) ==
    LET key == GenerateKey(prompt, model, reference_hash)
    IN  [k \in {key} |-> optimized_prompt]

\* self._cache[key] = optimized_prompt
CacheStore(c, prompt, model, optimized_prompt, reference_hash) ==
    LET key == GenerateKey(prompt, model, reference_hash)
    IN  [k \in DOMAIN c \cup {key} |-> IF k = key THEN optimized_prompt ELSE c[k]]

EmptyCache == [k \in {} |-> ""]

----------------------------------------------------------------------------
\* The poll loops.  Each operator gives the controller's next position after
\* one call of cancel_check() with outcome c:
\*   "join"       back to thread.join(timeout=poll_interval)
\*   "cancelled"  on the way to raising CancellationError
\*   "interrupt"  KeyboardInterrupt leaves the function

\* core/image_gen.py generate_image
GenerateImagePoll(c) ==
    CASE c = "true"              -> "cancelled"   \* raise CancellationError(...)
      [] c = "CancellationError" -> "cancelled"   \* except CancellationError: raise
      [] c = "Exception"         -> "join"        \* except Exception: pass
      [] c = "KeyboardInterrupt" -> "interrupt"   \* not an Exception
      [] OTHER                   -> "join"

\* core/providers/openrouter.py OpenRouterProvider.generate
OpenRouterPoll(c) ==
    CASE c = "true"              -> "cancelled"
      [] c = "CancellationError" -> "cancelled"
      [] c = "Exception"         -> "join"
      [] c = "KeyboardInterrupt" -> "interrupt"
      [] OTHER                   -> "join"

\* core/providers/ollama.py OllamaProvider.generate
OllamaPoll(c) ==
    CASE c = "true"              -> "cancelled"
      [] c = "CancellationError" -> "cancelled"
      [] c = "Exception"         -> "join"
      [] c = "KeyboardInterrupt" -> "interrupt"
      [] OTHER                   -> "join"

\* The loop of optimize_prompt_with_ollama with `except BaseException: pass`
OptimizePoll_BareExcept(c) ==
    CASE c = "true"              -> "cancelled"
      [] c = "CancellationError" -> "join"
      [] c = "Exception"         -> "join"
      [] c = "KeyboardInterrupt" -> "join"
      [] OTHER                   -> "join"

\* core/prompt.py optimize_prompt_with_ollama
OptimizePoll(c) ==
    CASE c = "true"              -> "cancelled"   \* cancelled = True; break
      [] c = "CancellationError" -> "join"        \* except Exception: pass
      [] c = "Exception"         -> "join"        \* except Exception: pass
      [] c = "KeyboardInterrupt" -> "interrupt"
      [] OTHER                   -> "join"

PollBranch(k, c) ==
    CASE k = "generate_image" -> GenerateImagePoll(c)
      [] k = "openrouter"     -> OpenRouterPoll(c)
      [] k = "ollama"         -> OllamaPoll(c)
      [] k = "optimize"       -> OptimizePoll(c)

\* The loop without its `break`: cancel_check() is called whether or not the
\* worker has ended
AliveBranch_NoBreak(alive) == "poll"

\* `if not thread.is_alive(): break` -- where the loop goes after is_alive()
AliveBranch(alive) == IF alive THEN "poll" ELSE "after"

\* After the loop of the HTTP calls: raise exc_holder[0] or return result_holder[0]
HttpAfterLoop(exc, res) ==
    IF exc # None THEN [outcome |-> exc[1], value |-> None]
    ELSE [outcome |-> "result", value |-> res]

\* str.strip()
PyStrip(s) == IF s = " " THEN "" ELSE s

\* _strip_ollama_thinking on the outputs of the model (no thinking block, no fence)
StripOllamaThinking(text) == IF PyStrip(text) = "" THEN text ELSE PyStrip(text)

\* The code after the loop with the return code tested before exc_holder[0]
OptimizeAfterLoop_ReturncodeFirst(exc, res, hasProcess, rc) ==
    LET out == IF res # None THEN res[1] ELSE ""
        optimized == StripOllamaThinking(PyStrip(out))
    IN  IF hasProcess /\ rc # 0 THEN [outcome |-> "APIError", value |-> None]
        ELSE IF exc # None THEN [outcome |-> exc[1], value |-> None]
        ELSE IF optimized = "" THEN [outcome |-> "APIError", value |-> None]
        ELSE [outcome |-> "result", value |-> Some(optimized)]

\* After the loop of optimize_prompt_with_ollama (not cancelled)
OptimizeAfterLoop(exc, res, hasProcess, rc) ==
    LET out == IF res # None THEN res[1] ELSE ""
        optimized == StripOllamaThinking(PyStrip(out))
    IN  IF exc # None THEN [outcome |-> exc[1], value |-> None]
        ELSE IF hasProcess /\ rc # 0 THEN [outcome |-> "APIError", value |-> None]
        ELSE IF optimized = "" THEN [outcome |-> "APIError", value |-> None]
        ELSE [outcome |-> "result", value |-> Some(optimized)]

\* The flag a callback of the front ends reads
FlagOf(c) == IF c = "cli" THEN cliFlag ELSE IF c = "gui" THEN guiFlag ELSE FALSE

\* What cancel_check() can do at this poll
CheckOutcomes ==
    IF cb = "free" THEN CancelOutcomes
    ELSE IF FlagOf(cb) THEN {"true"} ELSE {"false"}    \* _cancel_event.is_set()

----------------------------------------------------------------------------
\* The controller thread

\* thread.join(timeout=poll_interval) returns: the worker ended or the interval passed
JoinReturn ==
    /\ ctl = "join"
    /\ ctl' = "alive"
    /\ checkedThisPoll' = FALSE
    /\ UNCHANGED <<kind, cb, worker, result_holder, exc_holder, process_holder,
                   outcome, retval>>
    /\ UNCHANGED <<observedTrue, sawDead, firstDetected, flagAtExit, checkRaised, escaped>>
    /\ UNCHANGED <<procVars, opVars, flagVars, cacheVars, lockVars, regVars, gcVars, entryVars, reqVars, cfgVars, sessVars, boxVars>>

\* if not thread.is_alive(): break
IsAlive ==
    /\ ctl = "alive"
    /\ ctl' = AliveBranch(worker # "dead")
    /\ sawDead' = (worker = "dead")
    /\ firstDetected' = IF /\ firstDetected = "none"
                           /\ worker = "dead"
                           /\ exc_holder = Some("RequestTimeoutError")
                        THEN "timeout" ELSE firstDetected
    /\ UNCHANGED <<kind, cb, worker, result_holder, exc_holder, process_holder,
                   outcome, retval>>
    /\ UNCHANGED <<observedTrue, checkedThisPoll, flagAtExit, checkRaised, escaped>>
    /\ UNCHANGED <<procVars, opVars, flagVars, cacheVars, lockVars, regVars, gcVars, entryVars, reqVars, cfgVars, sessVars, boxVars>>

\* try: if cancel_check(): ... except ...
CancelCheck ==
    /\ ctl = "poll"
    /\ \E c \in CheckOutcomes :
        LET nxt == PollBranch(kind, c)
            raised == c \in {"KeyboardInterrupt", "Exception", "CancellationError"}
        IN  /\ ctl' = IF nxt = "interrupt" THEN "done" ELSE nxt
            /\ outcome' = IF nxt = "interrupt" THEN "KeyboardInterrupt" ELSE outcome
            /\ observedTrue' = (observedTrue \/ c = "true")
            /\ firstDetected' = IF firstDetected = "none" /\ c = "true"
                                THEN "cancel" ELSE firstDetected
            /\ checkRaised' = IF raised THEN checkRaised \cup {c} ELSE checkRaised
            /\ escaped' = IF raised /\ nxt # "join" THEN c ELSE escaped
    /\ checkedThisPoll' = TRUE
    /\ UNCHANGED <<kind, cb, worker, result_holder, exc_holder, process_holder, retval>>
    /\ UNCHANGED <<sawDead, flagAtExit>>
    /\ UNCHANGED <<procVars, opVars, flagVars, cacheVars, lockVars, regVars, gcVars, entryVars, reqVars, cfgVars, sessVars, boxVars>>

\* HTTP calls: raise CancellationError("Image generation was cancelled.")
\* The request thread is a daemon and is left running.
RaiseCancelled ==
    /\ ctl = "cancelled"
    /\ kind \in HttpKinds
    /\ ctl' = "done"
    /\ outcome' = "CancellationError"
    /\ UNCHANGED <<kind, cb, worker, result_holder, exc_holder, process_holder, retval>>
    /\ UNCHANGED <<seenVars, procVars, opVars, flagVars, cacheVars, lockVars, regVars, gcVars, entryVars, reqVars, cfgVars, sessVars, boxVars>>

\* optimize: if cancelled: proc = process_holder[0]; if proc is not None: proc.terminate()
OptimizeTerminate ==
    /\ ctl = "cancelled"
    /\ kind = "optimize"
    /\ IF process_holder
       THEN /\ termSent' = TRUE
            /\ ctl' = "join5"
            /\ outcome' = outcome
       ELSE /\ termSent' = termSent
            /\ ctl' = "done"
            /\ outcome' = "CancellationError"
    /\ UNCHANGED <<kind, cb, worker, result_holder, exc_holder, process_holder, retval>>
    /\ UNCHANGED <<proc, returncode, stdout, killSent>>
    /\ UNCHANGED <<seenVars, opVars, flagVars, cacheVars, lockVars, regVars, gcVars, entryVars, reqVars, cfgVars, sessVars, boxVars>>

\* The cancelled branch giving back the output of a worker that ended in time
OptimizeJoinRaise_ReturnsFinished ==
    /\ ctl = "join5"
    /\ ctl' = "done"
    /\ IF result_holder # None
       THEN outcome' = "result" /\ retval' = result_holder
       ELSE outcome' = "CancellationError" /\ retval' = retval
    /\ UNCHANGED <<kind, cb, worker, result_holder, exc_holder, process_holder>>
    /\ UNCHANGED <<seenVars, procVars, opVars, flagVars, cacheVars, lockVars, regVars, gcVars, entryVars, reqVars, cfgVars, sessVars, boxVars>>

\* The cancelled branch with a join that has no timeout: it returns only when
\* the worker thread has ended
OptimizeJoinRaise_Unbounded ==
    /\ ctl = "join5"
    /\ worker = "dead"
    /\ ctl' = "done"
    /\ outcome' = "CancellationError"
    /\ UNCHANGED <<kind, cb, worker, result_holder, exc_holder, process_holder, retval>>
    /\ UNCHANGED <<seenVars, procVars, opVars, flagVars, cacheVars, lockVars, regVars, gcVars, entryVars, reqVars, cfgVars, sessVars, boxVars>>

\* optimize: thread.join(timeout=5.0) returns (the worker ended or 5 s passed);
\* raise CancellationError("Optimization was cancelled.")
OptimizeJoinRaise ==
    /\ ctl = "join5"
    /\ ctl' = "done"
    /\ outcome' = "CancellationError"
    /\ UNCHANGED <<kind, cb, worker, result_holder, exc_holder, process_holder, retval>>
    /\ UNCHANGED <<seenVars, procVars, opVars, flagVars, cacheVars, lockVars, regVars, gcVars, entryVars, reqVars, cfgVars, sessVars, boxVars>>

\* The code after the loop storing the result only when the lookup was enabled
AfterLoop_NoStoreWhenForced ==
    /\ ctl = "after"
    /\ LET r == IF kind = "optimize"
                THEN OptimizeAfterLoop(exc_holder, result_holder, process_holder, returncode)
                ELSE HttpAfterLoop(exc_holder, result_holder)
           stores == kind = "optimize" /\ r.outcome = "result" /\ ~opForce
       IN  /\ outcome' = r.outcome
           /\ retval' = r.value
           /\ cache' = IF stores
                       THEN CacheStore(cache, opTriple[1], opTriple[2], r.value[1], opTriple[3])
                       ELSE cache
           /\ everSet' = IF stores THEN everSet \cup {opTriple} ELSE everSet
    /\ ctl' = "done"
    /\ UNCHANGED <<kind, cb, worker, result_holder, exc_holder, process_holder>>
    /\ UNCHANGED <<lastSet, lastGet, cacheOps>>
    /\ UNCHANGED <<seenVars, procVars, opVars, flagVars, lockVars, regVars, gcVars, entryVars, reqVars, cfgVars, sessVars, boxVars>>

\* After the loop: raise the stored error or return the result
AfterLoop ==
    /\ ctl = "after"
    /\ LET r == IF kind = "optimize"
                THEN OptimizeAfterLoop(exc_holder, result_holder, process_holder, returncode)
                ELSE HttpAfterLoop(exc_holder, result_holder)
       IN  /\ outcome' = r.outcome
           /\ retval' = r.value
           /\ cache' = IF kind = "optimize" /\ r.outcome = "result"
                       THEN CacheStore(cache, opTriple[1], opTriple[2], r.value[1], opTriple[3])
                       ELSE cache
           /\ everSet' = IF kind = "optimize" /\ r.outcome = "result"
                         THEN everSet \cup {opTriple} ELSE everSet
    /\ ctl' = "done"
    /\ UNCHANGED <<kind, cb, worker, result_holder, exc_holder, process_holder>>
    /\ UNCHANGED <<lastSet, lastGet, cacheOps>>
    /\ UNCHANGED <<seenVars, procVars, opVars, flagVars, lockVars, regVars, gcVars, entryVars, reqVars, cfgVars, sessVars, boxVars>>


----------------------------------------------------------------------------
\* The worker thread and the subprocess

\* The flag of the call's callback, recorded when the worker thread ends
CallFlag == IF cb = "free" THEN observedTrue ELSE FlagOf(cb)

\* HTTP worker: _do_request returns or raises; the outcome is stored
WorkerHttpFinish ==
    /\ worker = "request"
    /\ \E r \in {"result"} \cup HttpWorkerErrors :
        IF r = "result"
        THEN result_holder' = Some("image") /\ exc_holder' = exc_holder
        ELSE exc_holder' = Some(r) /\ result_holder' = result_holder
    /\ worker' = "stored"
    /\ UNCHANGED <<kind, cb, ctl, process_holder, outcome, retval>>
    /\ UNCHANGED <<seenVars, procVars, opVars, flagVars, cacheVars, lockVars, regVars, gcVars, entryVars, reqVars, cfgVars, sessVars, boxVars>>

\* worker_with_process: process = subprocess.Popen(["ollama", "run", model], ...)
WorkerPopen ==
    /\ worker = "popen"
    /\ \/ /\ proc' = "running"
          /\ worker' = "publish"
          /\ exc_holder' = exc_holder
       \/ /\ proc' = proc                              \* FileNotFoundError
          /\ worker' = "stored"
          /\ exc_holder' = Some("FileNotFoundError")   \* except BaseException as e
    /\ UNCHANGED <<kind, cb, ctl, result_holder, process_holder, outcome, retval>>
    /\ UNCHANGED <<returncode, stdout, termSent, killSent>>
    /\ UNCHANGED <<seenVars, opVars, flagVars, cacheVars, lockVars, regVars, gcVars, entryVars, reqVars, cfgVars, sessVars, boxVars>>

\* process_holder[0] = process
WorkerPublish ==
    /\ worker = "publish"
    /\ process_holder' = TRUE
    /\ worker' = "communicate"
    /\ UNCHANGED <<kind, cb, ctl, result_holder, exc_holder, outcome, retval>>
    /\ UNCHANGED <<seenVars, procVars, opVars, flagVars, cacheVars, lockVars, regVars, gcVars, entryVars, reqVars, cfgVars, sessVars, boxVars>>

\* stdout, stderr = process.communicate(...) returns once the process has exited
WorkerCommunicate ==
    /\ worker = "communicate"
    /\ proc = "exited"
    /\ result_holder' = Some(stdout)
    /\ worker' = "stored"
    /\ UNCHANGED <<kind, cb, ctl, exc_holder, process_holder, outcome, retval>>
    /\ UNCHANGED <<seenVars, procVars, opVars, flagVars, cacheVars, lockVars, regVars, gcVars, entryVars, reqVars, cfgVars, sessVars, boxVars>>

\* except subprocess.TimeoutExpired: process_holder[0].kill(); exc_holder[0] = ...
WorkerTimeout ==
    /\ worker = "communicate"
    /\ proc = "running"
    /\ killSent' = TRUE
    /\ exc_holder' = Some("RequestTimeoutError")
    /\ worker' = "stored"
    /\ UNCHANGED <<kind, cb, ctl, result_holder, process_holder, outcome, retval>>
    /\ UNCHANGED <<proc, returncode, stdout, termSent>>
    /\ UNCHANGED <<seenVars, opVars, flagVars, cacheVars, lockVars, regVars, gcVars, entryVars, reqVars, cfgVars, sessVars, boxVars>>

\* The worker function returns and the thread ends
WorkerExit ==
    /\ worker = "stored"
    /\ worker' = "dead"
    /\ flagAtExit' = IF CallFlag THEN "set" ELSE "clear"
    /\ UNCHANGED <<kind, cb, ctl, result_holder, exc_holder, process_holder,
                   outcome, retval>>
    /\ UNCHANGED <<observedTrue, sawDead, checkedThisPoll, firstDetected,
                   checkRaised, escaped>>
    /\ UNCHANGED <<procVars, opVars, flagVars, cacheVars, lockVars, regVars, gcVars, entryVars, reqVars, cfgVars, sessVars, boxVars>>

\* ollama run ends by itself
ProcExit ==
    /\ proc = "running"
    /\ \E rc \in ExitCodes, out \in Stdouts :
        /\ returncode' = rc
        /\ stdout' = out
    /\ proc' = "exited"
    /\ UNCHANGED <<termSent, killSent>>
    /\ UNCHANGED <<callVars, seenVars, opVars, flagVars, cacheVars, lockVars, regVars, gcVars, entryVars, reqVars, cfgVars, sessVars, boxVars>>

\* ollama run is ended by a signal it was sent; SIGTERM can be handled or
\* ignored by the process, so nothing forces this step after terminate()
ProcSignalExit ==
    /\ proc = "running"
    /\ termSent \/ killSent
    /\ returncode' = IF killSent THEN 0 - 9 ELSE 0 - 15
    /\ stdout' = ""
    /\ proc' = "exited"
    /\ UNCHANGED <<termSent, killSent>>
    /\ UNCHANGED <<callVars, seenVars, opVars, flagVars, cacheVars, lockVars, regVars, gcVars, entryVars, reqVars, cfgVars, sessVars, boxVars>>


----------------------------------------------------------------------------
\* Entering a cancellable function

\* The controller's and the worker's state at the start of a call
FreshCall(k, c) ==
    /\ kind' = k
    /\ cb' = c
    /\ ctl' = "enter"
    /\ worker' = "none"
    /\ result_holder' = None
    /\ exc_holder' = None
    /\ process_holder' = FALSE
    /\ outcome' = "none"
    /\ retval' = None
    /\ observedTrue' = FALSE
    /\ sawDead' = FALSE
    /\ checkedThisPoll' = FALSE
    /\ firstDetected' = "none"
    /\ flagAtExit' = "none"
    /\ checkRaised' = {}
    /\ escaped' = "none"

NoCall ==
    /\ kind' = "none"
    /\ cb' = "free"
    /\ ctl' = "idle"
    /\ worker' = "none"
    /\ result_holder' = None
    /\ exc_holder' = None
    /\ process_holder' = FALSE
    /\ outcome' = "none"
    /\ retval' = None
    /\ observedTrue' = FALSE
    /\ sawDead' = FALSE
    /\ checkedThisPoll' = FALSE
    /\ firstDetected' = "none"
    /\ flagAtExit' = "none"
    /\ checkRaised' = {}
    /\ escaped' = "none"

NoProcess ==
    /\ proc' = "none"
    /\ returncode' = 0
    /\ stdout' = ""
    /\ termSent' = FALSE
    /\ killSent' = FALSE

\* optimize_prompt_with_ollama: cached = cache.get(...); if cached: return cached
OptimizeCacheHit ==
    /\ ctl = "enter" /\ kind = "optimize"
    /\ ~opForce                                       \* if not force_refresh
    /\ LET cached == CacheLookup(cache, opTriple[1], opTriple[2], opTriple[3])
       IN  /\ Truthy(cached)
           /\ retval' = cached
    /\ outcome' = "result"
    /\ ctl' = "done"
    /\ UNCHANGED <<kind, cb, worker, result_holder, exc_holder, process_holder>>
    /\ UNCHANGED <<seenVars, procVars, opVars, flagVars, cacheVars, lockVars, regVars, gcVars, entryVars, reqVars, cfgVars, sessVars, boxVars>>

OptimizeMiss ==
    \/ opForce
    \/ LET cached == CacheLookup(cache, opTriple[1], opTriple[2], opTriple[3])
       IN  ~Truthy(cached)

\* if not check_ollama_available(): raise APIError(...)
OptimizeUnavailable ==
    /\ ctl = "enter" /\ kind = "optimize"
    /\ OptimizeMiss
    /\ outcome' = "APIError"
    /\ ctl' = "done"
    /\ UNCHANGED <<kind, cb, worker, result_holder, exc_holder, process_holder, retval>>
    /\ UNCHANGED <<seenVars, procVars, opVars, flagVars, cacheVars, lockVars, regVars, gcVars, entryVars, reqVars, cfgVars, sessVars, boxVars>>

\* thread = threading.Thread(target=worker_with_process, daemon=True); thread.start()
OptimizeStart ==
    /\ ctl = "enter" /\ kind = "optimize"
    /\ OptimizeMiss
    /\ cb # "none"
    /\ worker' = "popen"
    /\ ctl' = "join"
    /\ UNCHANGED <<kind, cb, result_holder, exc_holder, process_holder, outcome, retval>>
    /\ UNCHANGED <<seenVars, procVars, opVars, flagVars, cacheVars, lockVars, regVars, gcVars, entryVars, reqVars, cfgVars, sessVars, boxVars>>

\* What happened to `ollama run`: Popen found no executable, communicate()
\* timed out, or the process exited
SubprocessEvents == {"not_found", "timeout", "exited"}

\* _run_ollama_sync around _run_ollama_communicate: the result or the error of
\* the synchronous path for one subprocess event
RunOllamaSync(event, rc, out) ==
    LET optimized == StripOllamaThinking(PyStrip(out))
    IN  IF event = "not_found"                        \* except FileNotFoundError
        THEN [outcome |-> "APIError", value |-> None]
        ELSE IF event = "timeout"                     \* except subprocess.TimeoutExpired
        THEN [outcome |-> "RequestTimeoutError", value |-> None]
        ELSE IF rc # 0 THEN [outcome |-> "APIError", value |-> None]
        ELSE IF optimized = "" THEN [outcome |-> "APIError", value |-> None]
        ELSE [outcome |-> "result", value |-> Some(optimized)]

\* if cancel_check is None: return _run_ollama_sync(...): the subprocess is run
\* and waited for in the calling thread
OptimizeSync ==
    /\ ctl = "enter" /\ kind = "optimize"
    /\ OptimizeMiss
    /\ cb = "none"
    /\ \/ /\ outcome' = RunOllamaSync("not_found", 0, "").outcome
          /\ UNCHANGED <<retval, procVars, cache, everSet>>
       \/ /\ outcome' = RunOllamaSync("timeout", 0, "").outcome
          /\ proc' = "running"
          /\ killSent' = TRUE                       \* process.kill()
          /\ UNCHANGED <<retval, returncode, stdout, termSent, cache, everSet>>
       \/ \E rc \in ExitCodes, out \in Stdouts :
            LET r == RunOllamaSync("exited", rc, out)
            IN  /\ proc' = "exited"
                /\ returncode' = rc
                /\ stdout' = out
                /\ outcome' = r.outcome
                /\ retval' = r.value
                /\ cache' = IF r.outcome = "result"
                            THEN CacheStore(cache, opTriple[1], opTriple[2], r.value[1],
                                            opTriple[3])
                            ELSE cache
                /\ everSet' = IF r.outcome = "result"
                              THEN everSet \cup {opTriple} ELSE everSet
                /\ UNCHANGED <<termSent, killSent>>
    /\ ctl' = "done"
    /\ UNCHANGED <<kind, cb, worker, result_holder, exc_holder, process_holder>>
    /\ UNCHANGED <<lastSet, lastGet, cacheOps>>
    /\ UNCHANGED <<seenVars, opVars, flagVars, lockVars, regVars, gcVars, entryVars, reqVars, cfgVars, sessVars, boxVars>>

\* generate_image / provider.generate: a precondition fails before any request
HttpInvalid ==
    /\ ctl = "enter" /\ kind \in HttpKinds
    /\ outcome' = "ValidationError"
    /\ ctl' = "done"
    /\ UNCHANGED <<kind, cb, worker, result_holder, exc_holder, process_holder, retval>>
    /\ UNCHANGED <<seenVars, procVars, opVars, flagVars, cacheVars, lockVars, regVars, gcVars, entryVars, reqVars, cfgVars, sessVars, boxVars>>

\* thread = threading.Thread(target=worker, daemon=True); thread.start()
HttpStart ==
    /\ ctl = "enter" /\ kind \in HttpKinds
    /\ cb # "none"
    /\ worker' = "request"
    /\ ctl' = "join"
    /\ UNCHANGED <<kind, cb, result_holder, exc_holder, process_holder, outcome, retval>>
    /\ UNCHANGED <<seenVars, procVars, opVars, flagVars, cacheVars, lockVars, regVars, gcVars, entryVars, reqVars, cfgVars, sessVars, boxVars>>

\* if cancel_check is None: the request is made in the calling thread
HttpSync ==
    /\ ctl = "enter" /\ kind \in HttpKinds
    /\ cb = "none"
    /\ \E r \in {"result"} \cup HttpWorkerErrors :
        /\ outcome' = r
        /\ retval' = IF r = "result" THEN Some("image") ELSE None
    /\ ctl' = "done"
    /\ UNCHANGED <<kind, cb, worker, result_holder, exc_holder, process_holder>>
    /\ UNCHANGED <<seenVars, procVars, opVars, flagVars, cacheVars, lockVars, regVars, gcVars, entryVars, reqVars, cfgVars, sessVars, boxVars>>

\* clear_cache(): get_cache().clear()
ClearCacheCall ==
    /\ cache # EmptyCache
    /\ cache' = EmptyCache
    /\ everSet' = {}
    /\ UNCHANGED <<lastSet, lastGet, cacheOps>>
    /\ UNCHANGED <<callVars, seenVars, procVars, opVars, flagVars, lockVars, regVars, gcVars, entryVars, reqVars, cfgVars, sessVars, boxVars>>

----------------------------------------------------------------------------
\* The operations of the front ends

OpTriples == {<<"cat", "m", None>>, <<"cat", "m", Some("h")>>}

CanStartOp == opStage \in {"idle", "ended"} /\ nOps < MaxOps

BeginOp(type, optimize, force, triple) ==
    /\ opType' = type
    /\ opOptimize' = optimize
    /\ opForce' = force
    /\ opTriple' = triple
    /\ optOutcome' = "none"
    /\ opOutcome' = "none"
    /\ nOps' = nOps + 1
    /\ trigAfterReset' = FALSE
    /\ NoProcess

\* A caller of the library calls one of the functions with its own cancel_check
LibCall ==
    /\ CanStartOp
    /\ \E k \in Kinds, force \in BOOLEAN, triple \in OpTriples, c \in {"none", "free"} :
        /\ BeginOp("lib", k = "optimize", force, triple)
        /\ FreshCall(k, c)
    /\ opStage' = "call"
    /\ staleAtStart' = FALSE
    /\ UNCHANGED <<cliFlag, guiFlag, sigintInstalled>>
    /\ UNCHANGED <<cacheVars, lockVars, regVars, gcVars, entryVars, reqVars, cfgVars, sessVars, boxVars>>

\* cli generate: reset_cancellation() ... install_sigint_handler()
CliGenerate ==
    /\ CanStartOp
    /\ \E no_optimize \in BOOLEAN, triple \in OpTriples :
        BeginOp("cli_generate", ~no_optimize, FALSE, triple)
    /\ NoCall
    /\ opStage' = "pre"
    /\ staleAtStart' = cliFlag
    /\ cliFlag' = FALSE                 \* _cancel_event.clear()
    /\ sigintInstalled' = TRUE
    /\ UNCHANGED guiFlag
    /\ UNCHANGED <<cacheVars, lockVars, regVars, gcVars, entryVars, reqVars, cfgVars, sessVars, boxVars>>

\* _run_generate_stream: which branch of the Optimized-prompt-box test is taken
GuiWillOptimize(box_value, state_matches, optimize) ==
    IF box_value /\ state_matches THEN FALSE
    ELSE IF box_value /\ ~state_matches /\ optimize THEN TRUE
    ELSE IF box_value /\ ~state_matches /\ ~optimize THEN FALSE
    ELSE IF optimize THEN TRUE
    ELSE FALSE

\* _generate_click_handler: _cancel_event.clear(), then _run_generate_stream
GuiGenerateClick ==
    /\ CanStartOp
    /\ \E box_value \in BOOLEAN, state_matches \in BOOLEAN, optimize \in BOOLEAN,
          triple \in OpTriples :
        BeginOp("gui_generate", GuiWillOptimize(box_value, state_matches, optimize),
                FALSE, triple)
    /\ NoCall
    /\ opStage' = "pre"
    /\ staleAtStart' = guiFlag
    /\ guiFlag' = FALSE                 \* _cancel_event.clear()
    /\ UNCHANGED <<cliFlag, sigintInstalled>>
    /\ UNCHANGED <<cacheVars, lockVars, regVars, gcVars, entryVars, reqVars, cfgVars, sessVars, boxVars>>

\* The Optimize button without its _cancel_event.clear()
GuiOptimizeClick_NoClear ==
    /\ CanStartOp
    /\ \E triple \in OpTriples :
        BeginOp("gui_optimize", TRUE, TRUE, triple)
    /\ NoCall
    /\ opStage' = "pre"
    /\ staleAtStart' = guiFlag
    /\ UNCHANGED <<cliFlag, guiFlag, sigintInstalled>>
    /\ UNCHANGED <<cacheVars, lockVars, regVars, gcVars, entryVars, reqVars, cfgVars, sessVars, boxVars>>

\* _optimize_click_handler: _cancel_event.clear(), then _run_optimize_only_stream
GuiOptimizeClick ==
    /\ CanStartOp
    /\ \E triple \in OpTriples :
        BeginOp("gui_optimize", TRUE, TRUE, triple)   \* enable_cache=False
    /\ NoCall
    /\ opStage' = "pre"
    /\ staleAtStart' = guiFlag
    /\ guiFlag' = FALSE                 \* _cancel_event.clear()
    /\ UNCHANGED <<cliFlag, sigintInstalled>>
    /\ UNCHANGED <<cacheVars, lockVars, regVars, gcVars, entryVars, reqVars, cfgVars, sessVars, boxVars>>

\* The operation is over: the CLI restores the SIGINT handler; no flag is touched
EndOp(o) ==
    /\ opStage' = "ended"
    /\ opOutcome' = o
    /\ sigintInstalled' = IF opType = "cli_generate" THEN FALSE ELSE sigintInstalled
    /\ UNCHANGED <<cliFlag, guiFlag, trigAfterReset, staleAtStart>>
    /\ UNCHANGED <<opType, opOptimize, opForce, opTriple, nOps>>

OpCallback == IF opType = "cli_generate" THEN "cli" ELSE "gui"

\* Configuration, prompt or reference image is rejected before any stage
OpPreFail ==
    /\ opStage = "pre"
    /\ EndOp("ValidationError")
    /\ UNCHANGED optOutcome
    /\ UNCHANGED <<callVars, seenVars, procVars, cacheVars, lockVars, regVars, gcVars, entryVars, reqVars, cfgVars, sessVars, boxVars>>

\* optimize_prompt: if not config.optimization_enabled: return prompt
OpOptimizeDisabled ==
    /\ opStage = "pre" /\ opOptimize
    /\ optOutcome' = "result"
    /\ opStage' = "between"
    /\ UNCHANGED <<opType, opOptimize, opForce, opTriple, opOutcome, nOps>>
    /\ UNCHANGED <<callVars, seenVars, procVars, flagVars, cacheVars, lockVars, regVars, gcVars, entryVars, reqVars, cfgVars, sessVars, boxVars>>

\* optimize_prompt: if enable_cache: cached = cache.get(...); if cached: return cached
OpOptimizeCached ==
    /\ opStage = "pre" /\ opOptimize
    /\ ~opForce
    /\ LET cached == CacheLookup(cache, opTriple[1], opTriple[2], opTriple[3])
       IN  Truthy(cached)
    /\ optOutcome' = "result"
    /\ opStage' = "between"
    /\ UNCHANGED <<opType, opOptimize, opForce, opTriple, opOutcome, nOps>>
    /\ UNCHANGED <<callVars, seenVars, procVars, flagVars, cacheVars, lockVars, regVars, gcVars, entryVars, reqVars, cfgVars, sessVars, boxVars>>

\* optimize_prompt -> optimize_prompt_with_ollama(..., cancel_check=cancel_check,
\* force_refresh=not enable_cache)
OpOptimizeCall ==
    /\ opStage = "pre" /\ opOptimize
    /\ OptimizeMiss
    /\ FreshCall("optimize", OpCallback)
    /\ opStage' = "optimizing"
    /\ UNCHANGED <<opType, opOptimize, opForce, opTriple, optOutcome, opOutcome, nOps>>
    /\ UNCHANGED <<procVars, flagVars, cacheVars, lockVars, regVars, gcVars, entryVars, reqVars, cfgVars, sessVars, boxVars>>

\* The optimization stage with its exception swallowed: the operation goes on
\* to generate with the prompt it has
OpOptimizeDone_FallsThrough ==
    /\ opStage = "optimizing" /\ ctl = "done"
    /\ optOutcome' = outcome
    /\ opStage' = "between"
    /\ UNCHANGED <<opType, opOptimize, opForce, opTriple, opOutcome, nOps>>
    /\ UNCHANGED flagVars
    /\ UNCHANGED <<callVars, seenVars, procVars, cacheVars, lockVars, regVars, gcVars, entryVars, reqVars, cfgVars, sessVars, boxVars>>

\* The optimization stage returned or raised
OpOptimizeDone ==
    /\ opStage = "optimizing" /\ ctl = "done"
    /\ optOutcome' = outcome
    /\ IF outcome = "result"
       THEN /\ opStage' = "between"
            /\ UNCHANGED <<opType, opOptimize, opForce, opTriple, opOutcome, nOps>>
            /\ UNCHANGED flagVars
       ELSE EndOp(outcome)              \* the exception ends the operation
    /\ UNCHANGED <<callVars, seenVars, procVars, cacheVars, lockVars, regVars, gcVars, entryVars, reqVars, cfgVars, sessVars, boxVars>>

\* The Optimize button has no generation stage
OpOptimizeOnlyEnd ==
    /\ opStage = "between" /\ opType = "gui_optimize"
    /\ EndOp("result")
    /\ UNCHANGED optOutcome
    /\ UNCHANGED <<callVars, seenVars, procVars, cacheVars, lockVars, regVars, gcVars, entryVars, reqVars, cfgVars, sessVars, boxVars>>

\* result = generate_image(effective_prompt, ..., cancel_check=cancel_check)
OpGenerateCall ==
    /\ opType \in {"cli_generate", "gui_generate"}
    /\ \/ opStage = "between"
       \/ opStage = "pre" /\ ~opOptimize
    /\ \E k \in HttpKinds : FreshCall(k, OpCallback)
    /\ opStage' = "generating"
    /\ UNCHANGED <<opType, opOptimize, opForce, opTriple, optOutcome, opOutcome, nOps>>
    /\ UNCHANGED <<procVars, flagVars, cacheVars, lockVars, regVars, gcVars, entryVars, reqVars, cfgVars, sessVars, boxVars>>

\* The generation stage returned or raised
OpGenerateDone ==
    /\ opStage = "generating" /\ ctl = "done"
    /\ EndOp(outcome)
    /\ UNCHANGED optOutcome
    /\ UNCHANGED <<callVars, seenVars, procVars, cacheVars, lockVars, regVars, gcVars, entryVars, reqVars, cfgVars, sessVars, boxVars>>

\* The library call returned or raised
LibDone ==
    /\ opStage = "call" /\ ctl = "done"
    /\ EndOp(outcome)
    /\ UNCHANGED optOutcome
    /\ UNCHANGED <<callVars, seenVars, procVars, cacheVars, lockVars, regVars, gcVars, entryVars, reqVars, cfgVars, sessVars, boxVars>>

\* handle_sigint: _cancel_event.set()
Sigint ==
    /\ sigintInstalled
    /\ cliFlag' = TRUE
    /\ trigAfterReset' = TRUE
    /\ UNCHANGED <<guiFlag, sigintInstalled, staleAtStart>>
    /\ UNCHANGED <<callVars, seenVars, procVars, opVars, cacheVars, lockVars, regVars, gcVars, entryVars, reqVars, cfgVars, sessVars, boxVars>>

\* _stop_click_handler: _cancel_event.set()
StopClick ==
    /\ guiFlag' = TRUE
    /\ trigAfterReset' = IF opType \in {"gui_generate", "gui_optimize"}
                         THEN TRUE ELSE trigAfterReset
    /\ UNCHANGED <<cliFlag, sigintInstalled, staleAtStart>>
    /\ UNCHANGED <<callVars, seenVars, procVars, opVars, cacheVars, lockVars, regVars, gcVars, entryVars, reqVars, cfgVars, sessVars, boxVars>>

----------------------------------------------------------------------------
Init ==
    /\ kind = "none" /\ cb = "free" /\ ctl = "idle" /\ worker = "none"
    /\ result_holder = None /\ exc_holder = None /\ process_holder = FALSE
    /\ outcome = "none" /\ retval = None
    /\ proc = "none" /\ returncode = 0 /\ stdout = "" /\ termSent = FALSE /\ killSent = FALSE
    /\ observedTrue = FALSE /\ sawDead = FALSE /\ checkedThisPoll = FALSE
    /\ firstDetected = "none" /\ flagAtExit = "none" /\ checkRaised = {} /\ escaped = "none"
    /\ opType = "none" /\ opStage = "idle" /\ opOptimize = FALSE /\ opForce = FALSE
    /\ opTriple = <<"cat", "m", None>> /\ optOutcome = "none" /\ opOutcome = "none"
    /\ nOps = 0
    /\ cliFlag = FALSE /\ guiFlag = FALSE /\ sigintInstalled = FALSE
    /\ trigAfterReset = FALSE /\ staleAtStart = FALSE
    /\ cache = EmptyCache /\ lastSet = <<>> /\ lastGet = <<>> /\ everSet = {}
    /\ cacheOps = 0
    /\ lockCtl = [k \in {"openrouter", "ollama", "optimize"} |-> "running"]
    /\ lockPoll = [k \in {"openrouter", "ollama", "optimize"} |-> 0]
    /\ lockTrace = <<>>
    /\ registry = 0 /\ regHeap = <<>> /\ builtins_registered = FALSE
    /\ regPc = [t \in Threads |-> "idle"] /\ regLocal = [t \in Threads |-> 0]
    /\ regSawNone = [t \in Threads |-> FALSE]
    /\ regReturned = {} /\ builtinRegs = 0 /\ regHistory = <<>> /\ regResult = <<>>
    /\ regCalls = 0 /\ regOps = 0
    /\ global_cache = 0 /\ gcHeap = <<>>
    /\ gcPc = [t \in Threads |-> "idle"] /\ gcLocal = [t \in Threads |-> 0]
    /\ gcSawNone = [t \in Threads |-> FALSE]
    /\ gcExpect = EmptyCache /\ gcResult = <<>> /\ gcOps = 0 /\ gcCalls = 0
    /\ ePath = "none" /\ ePc = "idle" /\ ePrompt = <<>> /\ eReference = FALSE
    /\ eUseDesc = FALSE /\ eProvider = "openrouter" /\ eApiKeyArg = None /\ eCfgKey = <<>>
    /\ eCb = FALSE /\ eRefSent = FALSE /\ eProcessed = FALSE /\ eProviderCalled = FALSE
    /\ eHttp = FALSE /\ eThread = FALSE /\ eOutcome = "none" /\ eField = "" /\ eNamed = ""
    /\ eCalls = 0
    /\ qKind = "none" /\ qPc = "idle" /\ qCb = FALSE /\ qRef = None /\ qImagePart = FALSE
    /\ qStatus = 0 /\ qCtype = [type |-> <<>>, subtype |-> <<>>, params |-> <<>>]
    /\ qBody = "none" /\ qOutcome = "none" /\ qStatusCode = None /\ qFormat = <<>>
    /\ qHadRef = FALSE /\ qCalls = 0
    /\ cfg = <<>> /\ cfgPrev = <<>> /\ cfgLast = <<>> /\ cfgRaised = "none" /\ cfgOps = 0
    /\ sessOp = [u \in {1, 2} |-> "idle"] /\ sessEnd = [u \in {1, 2} |-> "none"]
    /\ sessStopped = [u \in {1, 2} |-> FALSE] /\ sessClicks = 0
    /\ prompt_tb = <<>> /\ ref_image = None /\ optimize_cb = TRUE /\ optimized_tb = <<>>
    /\ optimized_for_state = <<<<>>, None>> /\ boxPc = "idle"
    /\ gsPrompt = <<>> /\ gsRefHash = None /\ gsOptText = <<>> /\ gsBoxValue = <<>>
    /\ gsState = <<<<>>, None>> /\ gsEffective = <<>>
    /\ boxBranch = "none" /\ boxOptimizeOn = FALSE /\ boxMatched = FALSE
    /\ boxSent = None /\ boxSentFor = <<<<>>, None>> /\ boxClicks = 0

Next ==
    \/ LibCall \/ CliGenerate \/ GuiGenerateClick \/ GuiOptimizeClick
    \/ OpPreFail \/ OpOptimizeCached \/ OpOptimizeCall \/ OpOptimizeDone
    \/ OpOptimizeOnlyEnd \/ OpGenerateCall \/ OpGenerateDone \/ LibDone
    \/ Sigint \/ StopClick
    \/ OpOptimizeDisabled \/ ClearCacheCall
    \/ OptimizeCacheHit \/ OptimizeUnavailable \/ OptimizeStart \/ HttpInvalid \/ HttpStart
    \/ OptimizeSync \/ HttpSync
    \/ JoinReturn \/ IsAlive \/ CancelCheck \/ RaiseCancelled
    \/ OptimizeTerminate \/ OptimizeJoinRaise \/ AfterLoop
    \/ WorkerHttpFinish \/ WorkerPopen \/ WorkerPublish \/ WorkerCommunicate
    \/ WorkerTimeout \/ WorkerExit \/ ProcExit \/ ProcSignalExit

Spec == Init /\ [][Next]_vars

\* The calls made by a caller of the library, and the scheduling of its thread:
\* the controller is a running thread, so a step it can take is taken; nothing
\* is assumed of the worker thread, the subprocess or the backend.
CallNext ==
    \/ LibCall \/ LibDone
    \/ OptimizeCacheHit \/ OptimizeUnavailable \/ OptimizeStart \/ HttpInvalid \/ HttpStart
    \/ OptimizeSync \/ HttpSync
    \/ JoinReturn \/ IsAlive \/ CancelCheck \/ RaiseCancelled
    \/ OptimizeTerminate \/ OptimizeJoinRaise \/ AfterLoop
    \/ WorkerHttpFinish \/ WorkerPopen \/ WorkerPublish \/ WorkerCommunicate
    \/ WorkerTimeout \/ WorkerExit \/ ProcExit \/ ProcSignalExit

ControllerStep ==
    \/ JoinReturn \/ IsAlive \/ CancelCheck \/ RaiseCancelled
    \/ OptimizeTerminate \/ OptimizeJoinRaise \/ AfterLoop

SpecFair == Init /\ [][CallNext]_vars /\ WF_vars(ControllerStep)


----------------------------------------------------------------------------
\* The prompt cache called directly: PromptCache.set / get / clear

\* cache.set(prompt, model, optimized_prompt, reference_hash)
CacheSet ==
    /\ cacheOps < MaxCacheOps
    /\ \E t \in Triples, v \in Values :
        /\ cache' = CacheStore(cache, t[1], t[2], v, t[3])
        /\ lastSet' = <<t, v>>
        /\ everSet' = everSet \cup {t}
    /\ lastGet' = <<>>
    /\ cacheOps' = cacheOps + 1
    /\ UNCHANGED <<callVars, seenVars, procVars, opVars, flagVars, lockVars, regVars, gcVars, entryVars, reqVars, cfgVars, sessVars, boxVars>>

\* cache.get(prompt, model, reference_hash)
CacheGet ==
    /\ cacheOps < MaxCacheOps
    /\ \E t \in Triples :
        lastGet' = <<t, CacheLookup(cache, t[1], t[2], t[3])>>
    /\ lastSet' = IF lastGet = <<>> THEN lastSet ELSE <<>>   \* no longer right after set()
    /\ cacheOps' = cacheOps + 1
    /\ UNCHANGED <<cache, everSet>>
    /\ UNCHANGED <<callVars, seenVars, procVars, opVars, flagVars, lockVars, regVars, gcVars, entryVars, reqVars, cfgVars, sessVars, boxVars>>

\* cache.clear()
CacheClear ==
    /\ cacheOps < MaxCacheOps
    /\ cache' = EmptyCache
    /\ everSet' = {}
    /\ lastSet' = <<>>
    /\ lastGet' = <<>>
    /\ cacheOps' = cacheOps + 1
    /\ UNCHANGED <<callVars, seenVars, procVars, opVars, flagVars, lockVars, regVars, gcVars, entryVars, reqVars, cfgVars, sessVars, boxVars>>

CacheNext == CacheSet \/ CacheGet \/ CacheClear

SpecCache == Init /\ [][CacheNext]_vars

----------------------------------------------------------------------------
\* The three loops run side by side on one sequence of events.  At each poll
\* the worker is still running or has finished (with a result or an error)
\* and cancel_check() has one outcome, the same for the three loops.

LockKinds == {"openrouter", "ollama", "optimize"}
WorkerEvents == {"running", "finished_result", "finished_error"}

\* One iteration of the loop of kind k, and what follows the loop
LockIteration(k, e, c) ==
    LET exc == IF e = "finished_error" THEN Some("APIError") ELSE None
        res == IF e = "finished_result" THEN Some("opt") ELSE None
    IN  IF AliveBranch(e = "running") = "after"
        THEN IF k = "optimize"
             THEN OptimizeAfterLoop(exc, res, TRUE, 0).outcome
             ELSE HttpAfterLoop(exc, res).outcome
        ELSE LET b == PollBranch(k, c)
             IN  CASE b = "cancelled" -> "CancellationError"
                   [] b = "interrupt" -> "KeyboardInterrupt"
                   [] OTHER           -> "running"

LockStep ==
    /\ Len(lockTrace) < MaxLockPolls
    /\ \E k \in LockKinds : lockCtl[k] = "running"
    /\ \E e \in WorkerEvents, c \in CancelOutcomes :
        /\ lockTrace' = Append(lockTrace, <<e, c>>)
        /\ lockCtl' = [k \in LockKinds |->
                         IF lockCtl[k] = "running" THEN LockIteration(k, e, c)
                         ELSE lockCtl[k]]
        /\ lockPoll' = [k \in LockKinds |->
                         IF lockCtl[k] = "running" THEN Len(lockTrace) + 1
                         ELSE lockPoll[k]]
    /\ UNCHANGED <<callVars, seenVars, procVars, opVars, flagVars, cacheVars>>
    /\ UNCHANGED <<regVars, gcVars, entryVars, reqVars, cfgVars, sessVars, boxVars>>

SpecLock == Init /\ [][LockStep]_vars


----------------------------------------------------------------------------
\* The provider registry (core/providers/registry.py, core/providers/__init__.py).
\* A dict is the sequence of its <<key, value>> items in insertion order.

PROVIDER_OPENROUTER == "openrouter"
PROVIDER_OLLAMA == "ollama"
KNOWN_IMAGE_PROVIDERS == {PROVIDER_OPENROUTER, PROVIDER_OLLAMA}
RegIds == KNOWN_IMAGE_PROVIDERS \cup {"x"}
RegImpls == {"A", "B"}

DictKeys(d) == [i \in 1..Len(d) |-> d[i][1]]
DictHas(d, k) == \E i \in 1..Len(d) : d[i][1] = k
\* d.get(k)
DictGet(d, k) ==
    IF DictHas(d, k)
    THEN Some(d[CHOOSE i \in 1..Len(d) : d[i][1] = k /\ \A j \in 1..(i-1) : d[j][1] # k][2])
    ELSE None
\* d[k] = v
DictSetItem(d, k, v) ==
    IF DictHas(d, k)
    THEN [i \in 1..Len(d) |-> IF d[i][1] = k THEN <<k, v>> ELSE d[i]]
    ELSE Append(d, <<k, v>>)

\* A registry kept as a list of registrations
RegistryRegister_Append(impls, provider_id, impl) == Append(impls, <<provider_id, impl>>)

\* ProviderRegistry.register: self._impls[provider_id] = impl
RegistryRegister(impls, provider_id, impl) == DictSetItem(impls, provider_id, impl)

\* ProviderRegistry.get: return self._impls.get(provider_id)
RegistryGet(impls, provider_id) == DictGet(impls, provider_id)

\* ProviderRegistry.provider_ids: return list(self._impls.keys())
RegistryProviderIds(impls) == DictKeys(impls)

NoHistory == [id \in RegIds |-> <<>>]

\* register() on instance i, with its history
DoRegister(i, id, impl) ==
    /\ regHeap' = [regHeap EXCEPT ![i] = RegistryRegister(@, id, impl)]
    /\ regHistory' = [regHistory EXCEPT ![i][id] = Append(@, impl)]
    /\ regResult' = <<>>

\* The registry's code touches nothing else
RegFrame == UNCHANGED <<callVars, seenVars, procVars, opVars, flagVars, cacheVars,
                        lockVars, gcVars, entryVars, reqVars, cfgVars, sessVars, boxVars>>

\* providers.get_registry() is called by thread t
GetRegistryEnter(t) ==
    /\ regPc[t] = "idle"
    /\ regCalls < MaxRegCalls
    /\ regCalls' = regCalls + 1
    /\ regPc' = [regPc EXCEPT ![t] = "test"]
    /\ UNCHANGED <<registry, regHeap, builtins_registered, regLocal, regSawNone,
                   regReturned, builtinRegs, regHistory, regResult, regOps>>
    /\ RegFrame

\* registry.get_registry: if _registry is None:
GetRegistryTest(t) ==
    /\ regPc[t] = "test"
    /\ regSawNone' = [regSawNone EXCEPT ![t] = (registry = 0)]
    /\ regPc' = [regPc EXCEPT ![t] = IF registry = 0 THEN "create" ELSE "ret"]
    /\ UNCHANGED <<registry, regHeap, builtins_registered, regLocal,
                   regReturned, builtinRegs, regHistory, regResult, regCalls, regOps>>
    /\ RegFrame

\* _registry = ProviderRegistry()
GetRegistryCreate(t) ==
    /\ regPc[t] = "create"
    /\ regHeap' = Append(regHeap, <<>>)
    /\ regHistory' = Append(regHistory, NoHistory)
    /\ registry' = Len(regHeap) + 1
    /\ regPc' = [regPc EXCEPT ![t] = "ret"]
    /\ UNCHANGED <<builtins_registered, regLocal, regSawNone,
                   regReturned, builtinRegs, regResult, regCalls, regOps>>
    /\ RegFrame

\* return _registry; reg = _get_registry_impl()
GetRegistryReturn(t) ==
    /\ regPc[t] = "ret"
    /\ regLocal' = [regLocal EXCEPT ![t] = registry]
    /\ regPc' = [regPc EXCEPT ![t] = "flag"]
    /\ UNCHANGED <<registry, regHeap, builtins_registered, regSawNone,
                   regReturned, builtinRegs, regHistory, regResult, regCalls, regOps>>
    /\ RegFrame

\* _register_builtins: if _builtins_registered: return
RegisterBuiltinsTest(t) ==
    /\ regPc[t] = "flag"
    /\ regPc' = [regPc EXCEPT ![t] = IF builtins_registered THEN "out" ELSE "reg1"]
    /\ UNCHANGED <<registry, regHeap, builtins_registered, regLocal, regSawNone,
                   regReturned, builtinRegs, regHistory, regResult, regCalls, regOps>>
    /\ RegFrame

\* reg.register(PROVIDER_OPENROUTER, OpenRouterProvider())
RegisterBuiltinsOpenRouter(t) ==
    /\ regPc[t] = "reg1"
    /\ DoRegister(regLocal[t], PROVIDER_OPENROUTER, "OpenRouterProvider")
    /\ builtinRegs' = builtinRegs + 1
    /\ regPc' = [regPc EXCEPT ![t] = "reg2"]
    /\ UNCHANGED <<registry, builtins_registered, regLocal, regSawNone,
                   regReturned, regCalls, regOps>>
    /\ RegFrame

\* reg.register(PROVIDER_OLLAMA, OllamaProvider())
RegisterBuiltinsOllama(t) ==
    /\ regPc[t] = "reg2"
    /\ DoRegister(regLocal[t], PROVIDER_OLLAMA, "OllamaProvider")
    /\ builtinRegs' = builtinRegs + 1
    /\ regPc' = [regPc EXCEPT ![t] = "setflag"]
    /\ UNCHANGED <<registry, builtins_registered, regLocal, regSawNone,
                   regReturned, regCalls, regOps>>
    /\ RegFrame

\* _builtins_registered = True
RegisterBuiltinsSetFlag(t) ==
    /\ regPc[t] = "setflag"
    /\ builtins_registered' = TRUE
    /\ regPc' = [regPc EXCEPT ![t] = "out"]
    /\ UNCHANGED <<registry, regHeap, regLocal, regSawNone,
                   regReturned, builtinRegs, regHistory, regResult, regCalls, regOps>>
    /\ RegFrame

\* providers.get_registry: return reg
GetRegistryDone(t) ==
    /\ regPc[t] = "out"
    /\ LET ids == RegistryProviderIds(regHeap[regLocal[t]])
       IN  regReturned' = regReturned \cup
                            {<<regLocal[t], {ids[i] : i \in 1..Len(ids)}>>}
    /\ regPc' = [regPc EXCEPT ![t] = "idle"]
    /\ UNCHANGED <<registry, regHeap, builtins_registered, regLocal, regSawNone,
                   builtinRegs, regHistory, regResult, regCalls, regOps>>
    /\ RegFrame

CanRegOp(t) == regPc[t] = "idle" /\ regLocal[t] # 0 /\ regOps < MaxRegOps

\* get_registry().register(provider_id, impl) by a caller
RegRegister(t) ==
    /\ CanRegOp(t)
    /\ \E id \in RegIds, impl \in RegImpls : DoRegister(regLocal[t], id, impl)
    /\ regOps' = regOps + 1
    /\ UNCHANGED <<registry, builtins_registered, regPc, regLocal, regSawNone,
                   regReturned, builtinRegs, regCalls>>
    /\ RegFrame

\* get_registry().get(provider_id)
RegGet(t) ==
    /\ CanRegOp(t)
    /\ \E id \in RegIds :
        regResult' = <<"get", regLocal[t], id, RegistryGet(regHeap[regLocal[t]], id)>>
    /\ regOps' = regOps + 1
    /\ UNCHANGED <<registry, regHeap, builtins_registered, regPc, regLocal, regSawNone,
                   regReturned, builtinRegs, regHistory, regCalls>>
    /\ RegFrame

\* get_registry().provider_ids()
RegProviderIds(t) ==
    /\ CanRegOp(t)
    /\ regResult' = <<"provider_ids", regLocal[t], "",
                      RegistryProviderIds(regHeap[regLocal[t]])>>
    /\ regOps' = regOps + 1
    /\ UNCHANGED <<registry, regHeap, builtins_registered, regPc, regLocal, regSawNone,
                   regReturned, builtinRegs, regHistory, regCalls>>
    /\ RegFrame

RegistryNext ==
    \E t \in Threads :
        \/ GetRegistryEnter(t) \/ GetRegistryTest(t) \/ GetRegistryCreate(t)
        \/ GetRegistryReturn(t) \/ RegisterBuiltinsTest(t)
        \/ RegisterBuiltinsOpenRouter(t) \/ RegisterBuiltinsOllama(t)
        \/ RegisterBuiltinsSetFlag(t) \/ GetRegistryDone(t)
        \/ RegRegister(t) \/ RegGet(t) \/ RegProviderIds(t)

SpecRegistry == Init /\ [][RegistryNext]_vars


----------------------------------------------------------------------------
\* get_cache() and the cache it returns, used by threads (utils/cache.py)

GcTriples == {<<"cat", "m", None>>, <<"dog", "m", None>>}

GcFrame == UNCHANGED <<callVars, seenVars, procVars, opVars, flagVars, cacheVars,
                       lockVars, regVars, entryVars, reqVars, cfgVars, sessVars, boxVars>>

\* get_cache() is called by thread t
GetCacheEnter(t) ==
    /\ gcPc[t] = "idle"
    /\ gcCalls < MaxGcCalls
    /\ gcCalls' = gcCalls + 1
    /\ gcPc' = [gcPc EXCEPT ![t] = "test"]
    /\ UNCHANGED <<global_cache, gcHeap, gcLocal, gcSawNone, gcExpect, gcResult, gcOps>>
    /\ GcFrame

\* if _global_cache is None:
GetCacheTest(t) ==
    /\ gcPc[t] = "test"
    /\ gcSawNone' = [gcSawNone EXCEPT ![t] = (global_cache = 0)]
    /\ gcPc' = [gcPc EXCEPT ![t] = IF global_cache = 0 THEN "create" ELSE "ret"]
    /\ UNCHANGED <<global_cache, gcHeap, gcLocal, gcExpect, gcResult, gcOps, gcCalls>>
    /\ GcFrame

\* _global_cache = PromptCache()
GetCacheCreate(t) ==
    /\ gcPc[t] = "create"
    /\ gcHeap' = Append(gcHeap, EmptyCache)
    /\ global_cache' = Len(gcHeap) + 1
    /\ gcPc' = [gcPc EXCEPT ![t] = "ret"]
    /\ UNCHANGED <<gcLocal, gcSawNone, gcExpect, gcResult, gcOps, gcCalls>>
    /\ GcFrame

\* return _global_cache
GetCacheReturn(t) ==
    /\ gcPc[t] = "ret"
    /\ gcLocal' = [gcLocal EXCEPT ![t] = global_cache]
    /\ gcPc' = [gcPc EXCEPT ![t] = "idle"]
    /\ UNCHANGED <<global_cache, gcHeap, gcSawNone, gcExpect, gcResult, gcOps, gcCalls>>
    /\ GcFrame

CanGcOp(t) == gcPc[t] = "idle" /\ gcLocal[t] # 0 /\ gcOps < MaxGcOps

\* cache.set(prompt, model, optimized_prompt, reference_hash) on the cache t got
GcSet(t) ==
    /\ CanGcOp(t)
    /\ \E k \in GcTriples, v \in Values :
        /\ gcHeap' = [gcHeap EXCEPT ![gcLocal[t]] = CacheStore(@, k[1], k[2], v, k[3])]
        /\ gcExpect' = CacheStore(gcExpect, k[1], k[2], v, k[3])
    /\ gcResult' = <<>>
    /\ gcOps' = gcOps + 1
    /\ UNCHANGED <<global_cache, gcPc, gcLocal, gcSawNone, gcCalls>>
    /\ GcFrame

\* cache.get(prompt, model, reference_hash)
GcGet(t) ==
    /\ CanGcOp(t)
    /\ \E k \in GcTriples :
        gcResult' = <<"get", k, CacheLookup(gcHeap[gcLocal[t]], k[1], k[2], k[3])>>
    /\ gcOps' = gcOps + 1
    /\ UNCHANGED <<global_cache, gcHeap, gcPc, gcLocal, gcSawNone, gcExpect, gcCalls>>
    /\ GcFrame

\* cache.clear()
GcClear(t) ==
    /\ CanGcOp(t)
    /\ gcHeap' = [gcHeap EXCEPT ![gcLocal[t]] = EmptyCache]
    /\ gcExpect' = EmptyCache
    /\ gcResult' = <<>>
    /\ gcOps' = gcOps + 1
    /\ UNCHANGED <<global_cache, gcPc, gcLocal, gcSawNone, gcCalls>>
    /\ GcFrame

\* cache.size(): return len(self._cache)
GcSize(t) ==
    /\ CanGcOp(t)
    /\ gcResult' = <<"size", <<>>, Cardinality(DOMAIN gcHeap[gcLocal[t]])>>
    /\ gcOps' = gcOps + 1
    /\ UNCHANGED <<global_cache, gcHeap, gcPc, gcLocal, gcSawNone, gcExpect, gcCalls>>
    /\ GcFrame

GlobalCacheNext ==
    \E t \in Threads :
        \/ GetCacheEnter(t) \/ GetCacheTest(t) \/ GetCacheCreate(t) \/ GetCacheReturn(t)
        \/ GcSet(t) \/ GcGet(t) \/ GcClear(t) \/ GcSize(t)

SpecGlobalCache == Init /\ [][GlobalCacheNext]_vars


----------------------------------------------------------------------------
\* The path of one generation request: the checks of the front end, then
\* generate_image (core/image_gen.py).  Prompts and API keys are sequences of
\* characters.

EntryPrompts == {<<>>, <<" ">>, <<" ", "\n">>, <<"a", "b">>, <<"c", "a", "t">>, <<" ", "c", "a", "t">>}
ApiKeys == {<<>>, <<"b", "a", "d">>, <<"s", "k", "-", "o", "k">>}
EntryProviders == KNOWN_IMAGE_PROVIDERS \cup {"nope"}
Whitespace == {" ", "\n", "\t"}

RECURSIVE LStrip(_)
LStrip(s) == IF s # <<>> /\ Head(s) \in Whitespace THEN LStrip(Tail(s)) ELSE s
RECURSIVE RStrip(_)
RStrip(s) == IF s # <<>> /\ s[Len(s)] \in Whitespace
             THEN RStrip(SubSeq(s, 1, Len(s) - 1)) ELSE s
\* str.strip()
Strip(s) == RStrip(LStrip(s))

\* str.startswith(prefix)
StartsWith(s, prefix) == Len(s) >= Len(prefix) /\ SubSeq(s, 1, Len(prefix)) = prefix

NoError == [exc |-> "ok", field |-> "", named |-> ""]
Raise(exc, field, named) == [exc |-> exc, field |-> field, named |-> named]

\* prompt.validate_prompt
ValidatePrompt(prompt) ==
    IF prompt = <<>> \/ Strip(prompt) = <<>>
    THEN Raise("ValidationError", "prompt", "")
    ELSE IF Len(Strip(prompt)) < 3
    THEN Raise("ValidationError", "prompt", "")
    ELSE NoError

\* generate_image with `if not prompt:` alone as its first test
GenerateImageValidate_NoStrip(prompt, api_key, cfg_key) ==
    IF prompt = <<>>
    THEN Raise("ValidationError", "prompt", "")
    ELSE IF api_key = None /\ cfg_key = <<>>
    THEN Raise("ValidationError", "api_key", "")
    ELSE NoError

\* generate_image, up to the request: the prompt test and the API key test
GenerateImageValidate(prompt, api_key, cfg_key) ==
    IF prompt = <<>> \/ Strip(prompt) = <<>>          \* if not prompt or not prompt.strip()
    THEN Raise("ValidationError", "prompt", "")
    ELSE IF api_key = None /\ cfg_key = <<>>          \* if api_key is None: ... if not api_key
    THEN Raise("ValidationError", "api_key", "")
    ELSE NoError

\* The key generate_image puts in the Authorization header
EffectiveApiKey(api_key, cfg_key) == IF api_key = None THEN cfg_key ELSE api_key[1]

\* OpenRouterProvider._validate_config
OpenRouterValidateConfig(cfg_key, api_key_override) ==
    IF EffectiveApiKey(api_key_override, cfg_key) = <<>>
    THEN Raise("ValidationError", "api_key", "")
    ELSE NoError

\* Config.validate: the default provider and, for openrouter, the API key
ConfigValidate(default_image_provider, openrouter_api_key) ==
    IF default_image_provider \notin KNOWN_IMAGE_PROVIDERS
    THEN Raise("ConfigurationError", "", default_image_provider)
    ELSE IF default_image_provider = PROVIDER_OPENROUTER /\ openrouter_api_key = <<>>
    THEN Raise("ConfigurationError", "", "")
    ELSE IF /\ default_image_provider = PROVIDER_OPENROUTER
            /\ ~StartsWith(openrouter_api_key, <<"s", "k", "-">>)
    THEN Raise("ConfigurationError", "", "")
    ELSE NoError

\* The supports_reference_image attribute of the registered implementations
SupportsReferenceImage(provider_id) == provider_id = PROVIDER_OPENROUTER


EntryFrame == UNCHANGED <<callVars, seenVars, procVars, opVars, flagVars, cacheVars,
                          lockVars, regVars, gcVars, reqVars, cfgVars, sessVars, boxVars>>

\* The inputs of the request stay as they are
EntryInputs == UNCHANGED <<ePath, ePrompt, eReference, eUseDesc, eProvider, eApiKeyArg,
                           eCfgKey, eCb, eCalls>>

\* The request ends with the exception r
EntryFail(r) ==
    /\ ePc' = "done"
    /\ eOutcome' = r.exc
    /\ eField' = r.field
    /\ eNamed' = r.named

EntryGoOn(pc) ==
    /\ ePc' = pc
    /\ UNCHANGED <<eOutcome, eField, eNamed>>

\* A request starts with nothing done yet
EntryBegin(path, pc, prompt, reference, use_desc, provider, api_key, cfg_key, cancel) ==
    /\ ePc \in {"idle", "done"}
    /\ eCalls < MaxEntryCalls
    /\ eCalls' = eCalls + 1
    /\ ePath' = path /\ ePc' = pc
    /\ ePrompt' = prompt /\ eReference' = reference /\ eUseDesc' = use_desc
    /\ eProvider' = provider /\ eApiKeyArg' = api_key /\ eCfgKey' = cfg_key /\ eCb' = cancel
    /\ eProcessed' = FALSE /\ eProviderCalled' = FALSE
    /\ eHttp' = FALSE /\ eThread' = FALSE
    /\ eOutcome' = "none" /\ eField' = "" /\ eNamed' = ""

\* genimg generate --prompt ... [--reference ...]; without --provider the effective
\* provider is config.default_image_provider, the one Config.validate tests
EntryCli ==
    /\ \E prompt \in EntryPrompts, reference \in BOOLEAN, use_desc \in BOOLEAN,
          provider \in KNOWN_IMAGE_PROVIDERS, cfg_key \in ApiKeys :
        EntryBegin("cli", "config", prompt, reference, use_desc, provider, None, cfg_key, TRUE)
    /\ eRefSent' = FALSE
    /\ EntryFrame

\* The Generate button: _run_generate_stream, the provider dropdown left at the
\* configured default
EntryGui ==
    /\ \E prompt \in EntryPrompts, reference \in BOOLEAN, use_desc \in BOOLEAN,
          provider \in KNOWN_IMAGE_PROVIDERS, cfg_key \in ApiKeys :
        EntryBegin("gui", "gui_prompt", prompt, reference, use_desc, provider, None,
                   cfg_key, TRUE)
    /\ eRefSent' = FALSE
    /\ EntryFrame

\* A caller of the library calls generate_image; the provider id is the one its
\* configuration resolves to
EntryLib ==
    /\ \E prompt \in EntryPrompts, reference \in BOOLEAN, provider \in EntryProviders,
          api_key \in {None} \cup {Some(k) : k \in ApiKeys}, cfg_key \in ApiKeys,
          cancel \in BOOLEAN :
        /\ EntryBegin("lib", "gen_enter", prompt, reference, FALSE, provider, api_key,
                      cfg_key, cancel)
        /\ eRefSent' = reference
    /\ EntryFrame

\* A caller of the library calls OpenRouterProvider.generate
EntryProvider ==
    /\ \E prompt \in EntryPrompts, reference \in BOOLEAN,
          api_key \in {None} \cup {Some(k) : k \in ApiKeys}, cfg_key \in ApiKeys,
          cancel \in BOOLEAN :
        /\ EntryBegin("provider", "provider_enter", prompt, reference, FALSE,
                      PROVIDER_OPENROUTER, api_key, cfg_key, cancel)
        /\ eRefSent' = reference
    /\ EntryFrame

\* _run_generate_stream: if not prompt or not prompt.strip(): yield a warning; return
EntryGuiPrompt ==
    /\ ePc = "gui_prompt"
    /\ IF ePrompt = <<>> \/ Strip(ePrompt) = <<>>
       THEN EntryFail(Raise("warning", "", ""))
       ELSE EntryGoOn("config")
    /\ EntryInputs
    /\ UNCHANGED <<eRefSent, eProcessed, eProviderCalled, eHttp, eThread>>
    /\ EntryFrame

\* config = Config.from_env(); config.validate()
EntryConfig ==
    /\ ePc = "config"
    /\ LET r == ConfigValidate(eProvider, eCfgKey)
       IN  IF r # NoError THEN EntryFail(r)
           ELSE EntryGoOn(IF ePath = "cli" THEN "provcheck" ELSE "prompt")
    /\ EntryInputs
    /\ UNCHANGED <<eRefSent, eProcessed, eProviderCalled, eHttp, eThread>>
    /\ EntryFrame

\* commands.generate: a reference with a provider that takes none
CliProviderCheck(reference, use_reference_description, provider_eff) ==
    IF /\ reference /\ ~use_reference_description
       /\ provider_eff \in KNOWN_IMAGE_PROVIDERS          \* impl is not None
       /\ ~SupportsReferenceImage(provider_eff)
    THEN Raise("ValidationError", "reference_image", provider_eff)
    ELSE NoError

\* cli: impl = get_registry().get(provider_eff); if ... raise ValidationError(...)
EntryCliProviderCheck ==
    /\ ePc = "provcheck"
    /\ LET r == CliProviderCheck(eReference, eUseDesc, eProvider)
       IN  IF r # NoError THEN EntryFail(r) ELSE EntryGoOn("prompt")
    /\ EntryInputs
    /\ UNCHANGED <<eRefSent, eProcessed, eProviderCalled, eHttp, eThread>>
    /\ EntryFrame

\* validate_prompt(prompt)
EntryValidatePrompt ==
    /\ ePc = "prompt"
    /\ LET r == ValidatePrompt(ePrompt)
       IN  IF r # NoError THEN EntryFail(r) ELSE EntryGoOn("ref")
    /\ EntryInputs
    /\ UNCHANGED <<eRefSent, eProcessed, eProviderCalled, eHttp, eThread>>
    /\ EntryFrame

\* if reference is not None: ref_b64, ref_hash = process_reference_image(...)
EntryProcessReference ==
    /\ ePc = "ref"
    /\ eProcessed' = eReference
    /\ \/ EntryGoOn("describe")
       \/ /\ eReference
          /\ \E e \in {"ValidationError", "ImageProcessingError"} :
                EntryFail(Raise(e, "", ""))
    /\ EntryInputs
    /\ UNCHANGED <<eRefSent, eProviderCalled, eHttp, eThread>>
    /\ EntryFrame

\* if use_description and reference is not None: description = get_description(...)
EntryDescribe ==
    /\ ePc = "describe"
    /\ \/ EntryGoOn("optimize")
       \/ /\ eUseDesc /\ eReference
          /\ EntryFail(Raise("ImageProcessingError", "", ""))
    /\ EntryInputs
    /\ UNCHANGED <<eRefSent, eProcessed, eProviderCalled, eHttp, eThread>>
    /\ EntryFrame

\* The optimization stage, when there is one: it returns or its exception
\* ends the request
EntryOptimize ==
    /\ ePc = "optimize"
    /\ \/ EntryGoOn("send")
       \/ \E e \in {"APIError", "RequestTimeoutError", "CancellationError"} :
            EntryFail(Raise(e, "", ""))
    /\ EntryInputs
    /\ UNCHANGED <<eRefSent, eProcessed, eProviderCalled, eHttp, eThread>>
    /\ EntryFrame

\* The reference the front end passes on to generate_image
\*   cli: ref_b64 if impl supports reference images else None
\*   gui: ref_b64 if provider != "ollama" else None
RefB64ToSend(path, reference, provider) ==
    IF path = "cli"
    THEN reference /\ provider \in KNOWN_IMAGE_PROVIDERS /\ SupportsReferenceImage(provider)
    ELSE reference /\ provider # "ollama"

\* result = generate_image(effective_prompt, reference_image_b64=ref_b64_to_send, ...)
EntrySend ==
    /\ ePc = "send"
    /\ eRefSent' = RefB64ToSend(ePath, eReference, eProvider)
    /\ EntryGoOn("gen_enter")
    /\ EntryInputs
    /\ UNCHANGED <<eProcessed, eProviderCalled, eHttp, eThread>>
    /\ EntryFrame

\* generate_image: the prompt and API key tests
GenerateImageEnter ==
    /\ ePc = "gen_enter"
    /\ LET r == GenerateImageValidate(ePrompt, eApiKeyArg, eCfgKey)
       IN  IF r # NoError THEN EntryFail(r) ELSE EntryGoOn("gen_request")
    /\ EntryInputs
    /\ UNCHANGED <<eRefSent, eProcessed, eProviderCalled, eHttp, eThread>>
    /\ EntryFrame

\* OpenRouterProvider.generate: self._validate_config(config, api_key_override)
ProviderGenerateEnter ==
    /\ ePc = "provider_enter"
    /\ eProviderCalled' = TRUE
    /\ LET r == OpenRouterValidateConfig(eCfgKey, eApiKeyArg)
       IN  IF r # NoError THEN EntryFail(r) ELSE EntryGoOn("gen_request")
    /\ EntryInputs
    /\ UNCHANGED <<eRefSent, eProcessed, eHttp, eThread>>
    /\ EntryFrame

\* if cancel_check is None: the request is made in the calling thread
EntryRequestSync ==
    /\ ePc = "gen_request" /\ ~eCb
    /\ eProviderCalled' = TRUE
    /\ eHttp' = TRUE
    /\ \E r \in {"result"} \cup HttpWorkerErrors : EntryFail(Raise(r, "", ""))
    /\ EntryInputs
    /\ UNCHANGED <<eRefSent, eProcessed, eThread>>
    /\ EntryFrame

\* thread = threading.Thread(target=worker, daemon=True); thread.start()
EntryThreadStart ==
    /\ ePc = "gen_request" /\ eCb
    /\ eProviderCalled' = TRUE
    /\ eThread' = TRUE
    /\ EntryGoOn("gen_wait")
    /\ EntryInputs
    /\ UNCHANGED <<eRefSent, eProcessed, eHttp>>
    /\ EntryFrame

\* worker: requests.post(...)
EntryWorkerRequest ==
    /\ ePc = "gen_wait" /\ ~eHttp
    /\ eHttp' = TRUE
    /\ EntryGoOn("gen_wait")
    /\ EntryInputs
    /\ UNCHANGED <<eRefSent, eProcessed, eProviderCalled, eThread>>
    /\ EntryFrame

\* The poll loop ends: cancelled, or the worker's result or error
EntryLoopEnd ==
    /\ ePc = "gen_wait"
    /\ \E r \in {"result", "CancellationError"} \cup HttpWorkerErrors :
        /\ (r # "CancellationError" => eHttp)
        /\ EntryFail(Raise(r, "", ""))
    /\ EntryInputs
    /\ UNCHANGED <<eRefSent, eProcessed, eProviderCalled, eHttp, eThread>>
    /\ EntryFrame

EntryNext ==
    \/ EntryCli \/ EntryGui \/ EntryLib \/ EntryProvider
    \/ EntryGuiPrompt \/ EntryConfig \/ EntryCliProviderCheck \/ EntryValidatePrompt
    \/ EntryProcessReference \/ EntryDescribe \/ EntryOptimize \/ EntrySend
    \/ GenerateImageEnter \/ ProviderGenerateEnter
    \/ EntryRequestSync \/ EntryThreadStart \/ EntryWorkerRequest \/ EntryLoopEnd

SpecEntry == Init /\ [][EntryNext]_vars


----------------------------------------------------------------------------
\* One HTTP request of a generation call: payload, response status, response
\* parsing (core/image_gen.py, core/providers/openrouter.py, ollama.py)

\* The status codes a backend answers with
Statuses == {200, 201, 302, 399, 400, 401, 404, 429, 499, 500, 503}

\* Content-Type headers: type "/" subtype params; NoContentType is a response
\* without the header (headers.get("content-type", ""))
NoContentType == [type |-> <<>>, subtype |-> <<>>, params |-> <<>>]
ContentTypes ==
    { NoContentType,
      [type |-> <<"a", "p", "p", "l", "i", "c", "a", "t", "i", "o", "n">>, subtype |-> <<"j", "s", "o", "n">>, params |-> <<>>],
      [type |-> <<"i", "m", "a", "g", "e">>, subtype |-> <<"p", "n", "g">>, params |-> <<>>],
      [type |-> <<"i", "m", "a", "g", "e">>, subtype |-> <<"j", "p", "e", "g">>, params |-> <<>>],
      [type |-> <<"i", "m", "a", "g", "e">>, subtype |-> <<"P", "N", "G">>, params |-> <<>>],
      [type |-> <<"i", "m", "a", "g", "e">>, subtype |-> <<"j", "p", "e", "g">>, params |-> <<";", " ", "q">>],
      [type |-> <<"i", "m", "a", "g", "e">>, subtype |-> <<"w", "e", "b", "p">>, params |-> <<" ", ";", "q">>] }

\* The header value as the string the code reads
HeaderValue(ct) ==
    IF ct = NoContentType THEN <<>> ELSE ct.type \o <<"/">> \o ct.subtype \o ct.params

\* What the body of a response holds: an image file, bytes that are no image,
\* a JSON document with an image in it, a JSON document without
Bodies == {"image", "garbage", "json_image", "json_no_image"}

\* The reference_image_b64 argument: None, "" or a base64 string
ReqReferences == {None, Some(""), Some("b64")}

\* str.lower() on the letters the headers use
LowerChar(c) ==
    CASE c = "P" -> "p" [] c = "N" -> "n" [] c = "G" -> "g" [] OTHER -> c
Lower(s) == [i \in 1..Len(s) |-> LowerChar(s[i])]

\* s.split(sep, 1)[1]: what follows the first sep
RECURSIVE AfterFirst(_, _)
AfterFirst(s, sep) ==
    IF s = <<>> THEN <<>>
    ELSE IF Head(s) = sep THEN Tail(s) ELSE AfterFirst(Tail(s), sep)

\* s.split(sep)[0]: what precedes the first sep
RECURSIVE BeforeFirst(_, _)
BeforeFirst(s, sep) ==
    IF s = <<>> THEN <<>>
    ELSE IF Head(s) = sep THEN <<>> ELSE <<Head(s)>> \o BeforeFirst(Tail(s), sep)

\* image_gen._format_from_content_type
FormatFromContentType(content_type) ==
    IF content_type = <<>> \/ ~StartsWith(Lower(Strip(content_type)), <<"i", "m", "a", "g", "e", "/">>)
    THEN <<"p", "n", "g">>
    ELSE LET fmt == Strip(BeforeFirst(Lower(AfterFirst(content_type, "/")), ";"))
         IN  IF fmt = <<>> THEN <<"p", "n", "g">> ELSE fmt

ApiError(status_code) == [exc |-> "APIError", status_code |-> status_code]
StatusOk == [exc |-> "ok", status_code |-> None]

\* _do_generate_image_request: the tests of response.status_code
GenerateImageStatusCheck(status_code) ==
    IF status_code = 401 THEN ApiError(Some(401))
    ELSE IF status_code = 404 THEN ApiError(Some(404))
    ELSE IF status_code = 429 THEN ApiError(Some(429))
    ELSE IF status_code >= 500 THEN ApiError(Some(status_code))
    ELSE IF status_code # 200 THEN ApiError(Some(status_code))
    ELSE StatusOk

\* OpenRouterProvider._do_request: the tests of response.status_code
OpenRouterStatusCheck(status_code) ==
    IF status_code = 401 THEN ApiError(Some(401))
    ELSE IF status_code = 404 THEN ApiError(Some(404))
    ELSE IF status_code = 429 THEN ApiError(Some(429))
    ELSE IF status_code >= 500 THEN ApiError(Some(status_code))
    ELSE IF status_code # 200 THEN ApiError(Some(status_code))
    ELSE StatusOk

\* The tests of OllamaProvider._do_request with the errors (>= 400) alone
OllamaStatusCheck_ErrorsOnly(status_code) ==
    IF status_code >= 400 THEN ApiError(Some(status_code))
    ELSE StatusOk

\* OllamaProvider._do_request: the tests of response.status_code
OllamaStatusCheck(status_code) ==
    IF status_code >= 400 THEN ApiError(Some(status_code))
    ELSE IF status_code # 200 THEN ApiError(Some(status_code))
    ELSE StatusOk

StatusCheck(k, status_code) ==
    CASE k = "generate_image" -> GenerateImageStatusCheck(status_code)
      [] k = "openrouter"     -> OpenRouterStatusCheck(status_code)
      [] k = "ollama"         -> OllamaStatusCheck(status_code)

\* The payload has an image part: `if reference_image_b64:` in generate_image
\* and in OpenRouterProvider._build_payload; the Ollama payload never has one
PayloadHasImage(k, reference_image_b64) ==
    IF k = "ollama" THEN FALSE ELSE Truthy(reference_image_b64)

\* had_reference of the result: `reference_image_b64 is not None` in
\* generate_image and OpenRouterProvider._do_request, False in OllamaProvider
HadReference(k, reference_image_b64) ==
    IF k = "ollama" THEN FALSE ELSE reference_image_b64 # None

ParseResult(fmt, had_ref) ==
    [exc |-> "result", format |-> fmt, had_reference |-> had_ref]
ParseError(exc) == [exc |-> exc, format |-> <<>>, had_reference |-> FALSE]

\* The parsing of a 200 response: a body announced as an image is opened with
\* PIL and its format taken from the header; anything else is read as JSON
ParseResponse(k, content_type, body, reference_image_b64) ==
    IF StartsWith(content_type, <<"i", "m", "a", "g", "e", "/">>)
    THEN IF body = "image"                                \* Image.open(...)
         THEN ParseResult(FormatFromContentType(content_type),
                          HadReference(k, reference_image_b64))
         ELSE ParseError("UnidentifiedImageError")
    ELSE IF body = "json_image"
    THEN ParseResult(<<"p", "n", "g">>, HadReference(k, reference_image_b64))
    ELSE ParseError("APIError")                           \* no JSON / no image in it

ReqFrame == UNCHANGED <<callVars, seenVars, procVars, opVars, flagVars, cacheVars,
                        lockVars, regVars, gcVars, entryVars, cfgVars, sessVars, boxVars>>

ReqInputs == UNCHANGED <<qKind, qCb, qRef, qCalls>>

ReqEnd(exc, status_code, fmt, had_ref) ==
    /\ qPc' = "done"
    /\ qOutcome' = exc
    /\ qStatusCode' = status_code
    /\ qFormat' = fmt
    /\ qHadRef' = had_ref

\* A generation call has passed its validation
ReqBegin ==
    /\ qPc \in {"idle", "done"}
    /\ qCalls < MaxReqCalls
    /\ qCalls' = qCalls + 1
    /\ \E k \in HttpKinds, c \in BOOLEAN, ref \in ReqReferences :
        /\ qKind' = k /\ qCb' = c /\ qRef' = ref
    /\ qPc' = "build"
    /\ qImagePart' = FALSE /\ qStatus' = 0 /\ qCtype' = NoContentType /\ qBody' = "none"
    /\ qOutcome' = "none" /\ qStatusCode' = None /\ qFormat' = <<>> /\ qHadRef' = FALSE
    /\ ReqFrame

\* content_parts / payload is built
ReqBuildPayload ==
    /\ qPc = "build"
    /\ qImagePart' = PayloadHasImage(qKind, qRef)
    /\ qPc' = "post"
    /\ ReqInputs
    /\ UNCHANGED <<qStatus, qCtype, qBody, qOutcome, qStatusCode, qFormat, qHadRef>>
    /\ ReqFrame

\* response = requests.post(...): the backend answers
ReqResponse ==
    /\ qPc = "post"
    /\ \E st \in Statuses, ct \in ContentTypes, b \in Bodies :
        /\ qStatus' = st /\ qCtype' = ct /\ qBody' = b
    /\ qPc' = "status"
    /\ ReqInputs
    /\ UNCHANGED <<qImagePart, qOutcome, qStatusCode, qFormat, qHadRef>>
    /\ ReqFrame

\* requests.post raises: Timeout -> RequestTimeoutError, ConnectionError and
\* the other RequestExceptions -> NetworkError
ReqTransportError ==
    /\ qPc = "post"
    /\ \E e \in {"RequestTimeoutError", "NetworkError"} : ReqEnd(e, None, <<>>, FALSE)
    /\ ReqInputs
    /\ UNCHANGED <<qImagePart, qStatus, qCtype, qBody>>
    /\ ReqFrame

\* The tests of response.status_code
ReqStatus ==
    /\ qPc = "status"
    /\ LET r == StatusCheck(qKind, qStatus)
       IN  IF r.exc # "ok"
           THEN ReqEnd(r.exc, r.status_code, <<>>, FALSE)
           ELSE /\ qPc' = "parse"
                /\ UNCHANGED <<qOutcome, qStatusCode, qFormat, qHadRef>>
    /\ ReqInputs
    /\ UNCHANGED <<qImagePart, qStatus, qCtype, qBody>>
    /\ ReqFrame

\* The response is parsed into a GenerationResult
ReqParse ==
    /\ qPc = "parse"
    /\ LET r == ParseResponse(qKind, HeaderValue(qCtype), qBody, qRef)
       IN  ReqEnd(r.exc, None, r.format, r.had_reference)
    /\ ReqInputs
    /\ UNCHANGED <<qImagePart, qStatus, qCtype, qBody>>
    /\ ReqFrame

\* A poll of the caller's loop gets True while the worker is still in the request
ReqCancelled ==
    /\ qCb
    /\ qPc \in {"post", "status", "parse"}
    /\ ReqEnd("CancellationError", None, <<>>, FALSE)
    /\ ReqInputs
    /\ UNCHANGED <<qImagePart, qStatus, qCtype, qBody>>
    /\ ReqFrame

RequestNext ==
    \/ ReqBegin \/ ReqBuildPayload \/ ReqResponse \/ ReqTransportError
    \/ ReqStatus \/ ReqParse \/ ReqCancelled

SpecRequest == Init /\ [][RequestNext]_vars


----------------------------------------------------------------------------
\* Config (core/config.py): validate() and the setters

NoConfig == <<>>

\* Field values a Config is constructed with (from_env or the constructor)
CfgKeys == ApiKeys \cup {<<"s", "k", "-", "2">>}
CfgModels == {"", "m", "n"}
CfgMinPixels == {0, 2500, 3000000}
CfgMaxPixels == {2000000}
CfgAspectRatios == {<<1, 1>>, <<0, 1>>, <<16, 9>>}

Configs ==
    [openrouter_api_key : ApiKeys,
     default_image_provider : EntryProviders,
     default_image_model : {"m"},
     default_optimization_model : {"m"},
     min_image_pixels : CfgMinPixels,
     max_image_pixels : CfgMaxPixels,
     aspect_ratio : CfgAspectRatios,
     validated : {FALSE}]

\* Config.validate: every check, in the order of the code
ConfigValidateAll(c) ==
    IF c.min_image_pixels <= 0 THEN Raise("ConfigurationError", "", "")
    ELSE IF c.min_image_pixels > c.max_image_pixels THEN Raise("ConfigurationError", "", "")
    ELSE IF c.aspect_ratio[1] <= 0 \/ c.aspect_ratio[2] <= 0
    THEN Raise("ConfigurationError", "", "")
    ELSE ConfigValidate(c.default_image_provider, c.openrouter_api_key)

\* The outcome of a method: the Config after it and what it raised
CfgReturn(c) == [config |-> c, raised |-> "none"]
CfgRaise(c, exc) == [config |-> c, raised |-> exc]

\* validate() with the flag set before the checks are made
Validate_FlagFirst(c) ==
    LET d == [c EXCEPT !.validated = TRUE]
    IN  IF ConfigValidateAll(c) # NoError
        THEN CfgRaise(d, "ConfigurationError")
        ELSE CfgReturn(d)

\* Config.validate: self._validated = True is its last statement
Validate(c) ==
    IF ConfigValidateAll(c) # NoError
    THEN CfgRaise(c, "ConfigurationError")
    ELSE CfgReturn([c EXCEPT !.validated = TRUE])

\* set_api_key with the assignments made before the tests
SetApiKey_AssignFirst(c, api_key) ==
    LET d == [c EXCEPT !.openrouter_api_key = api_key, !.validated = FALSE]
    IN  IF api_key = <<>> THEN CfgRaise(d, "ConfigurationError")
        ELSE IF ~StartsWith(api_key, <<"s", "k", "-">>) THEN CfgRaise(d, "ConfigurationError")
        ELSE CfgReturn(d)

\* Config.set_api_key
SetApiKey(c, api_key) ==
    IF api_key = <<>> THEN CfgRaise(c, "ConfigurationError")
    ELSE IF ~StartsWith(api_key, <<"s", "k", "-">>) THEN CfgRaise(c, "ConfigurationError")
    ELSE CfgReturn([c EXCEPT !.openrouter_api_key = api_key, !.validated = FALSE])

\* Config.set_image_model
SetImageModel(c, model) ==
    IF model = "" THEN CfgRaise(c, "ConfigurationError")
    ELSE CfgReturn([c EXCEPT !.default_image_model = model])

\* Config.set_optimization_model
SetOptimizationModel(c, model) ==
    IF model = "" THEN CfgRaise(c, "ConfigurationError")
    ELSE CfgReturn([c EXCEPT !.default_optimization_model = model])

\* Config.is_valid
IsValid(c) == c.validated

CfgFrame == UNCHANGED <<callVars, seenVars, procVars, opVars, flagVars, cacheVars,
                        lockVars, regVars, gcVars, entryVars, reqVars, sessVars, boxVars>>

\* A call on the Config ends with the outcome r
CfgCall(method, arg, r) ==
    /\ cfg # NoConfig
    /\ cfgOps < MaxCfgOps
    /\ cfgOps' = cfgOps + 1
    /\ cfgPrev' = cfg
    /\ cfgLast' = <<method, arg>>
    /\ cfg' = r.config
    /\ cfgRaised' = r.raised

\* Config(...) / Config.from_env()
CfgNew ==
    /\ cfg = NoConfig
    /\ \E c \in Configs : cfg' = c
    /\ UNCHANGED <<cfgPrev, cfgLast, cfgRaised, cfgOps>>
    /\ CfgFrame

CfgValidate ==
    /\ cfg # NoConfig
    /\ CfgCall("validate", <<>>, Validate(cfg))
    /\ CfgFrame

CfgSetApiKey ==
    /\ cfg # NoConfig
    /\ \E api_key \in CfgKeys : CfgCall("set_api_key", api_key, SetApiKey(cfg, api_key))
    /\ CfgFrame

CfgSetImageModel ==
    /\ cfg # NoConfig
    /\ \E model \in CfgModels : CfgCall("set_image_model", model, SetImageModel(cfg, model))
    /\ CfgFrame

CfgSetOptimizationModel ==
    /\ cfg # NoConfig
    /\ \E model \in CfgModels :
        CfgCall("set_optimization_model", model, SetOptimizationModel(cfg, model))
    /\ CfgFrame

ConfigNext ==
    \/ CfgNew \/ CfgValidate \/ CfgSetApiKey \/ CfgSetImageModel \/ CfgSetOptimizationModel

SpecConfig == Init /\ [][ConfigNext]_vars


----------------------------------------------------------------------------
\* Two GUI sessions of one server process (ui/gradio_app.py).  The handlers
\* are module functions and _cancel_event (guiFlag) is a module global: every
\* session's handlers clear, set and read the same Event.

Sessions == {1, 2}

SessFrame == UNCHANGED <<callVars, seenVars, procVars, opVars, cacheVars, lockVars,
                         regVars, gcVars, entryVars, reqVars, cfgVars, boxVars>>

SessFlagFrame == UNCHANGED <<cliFlag, sigintInstalled, trigAfterReset, staleAtStart>>

\* A click of Generate or Optimize in session u: _cancel_event.clear(), then
\* the stream runs with cancel_check=lambda: _cancel_event.is_set()
SessClick(u, op) ==
    /\ sessOp[u] = "idle"
    /\ sessClicks < MaxSessClicks
    /\ sessClicks' = sessClicks + 1
    /\ guiFlag' = FALSE
    /\ sessOp' = [sessOp EXCEPT ![u] = op]
    /\ sessEnd' = [sessEnd EXCEPT ![u] = "none"]
    /\ sessStopped' = [sessStopped EXCEPT ![u] = FALSE]

\* _generate_click_handler
SessGenerateClick(u) ==
    /\ SessClick(u, "generate")
    /\ SessFlagFrame
    /\ SessFrame

\* _optimize_click_handler
SessOptimizeClick(u) ==
    /\ SessClick(u, "optimize")
    /\ SessFlagFrame
    /\ SessFrame

\* _stop_click_handler, clicked in session u while its operation runs
SessStopClick(u) ==
    /\ sessOp[u] # "idle"
    /\ ~sessStopped[u]
    /\ guiFlag' = TRUE
    /\ sessStopped' = [sessStopped EXCEPT ![u] = TRUE]
    /\ UNCHANGED <<sessOp, sessEnd, sessClicks>>
    /\ SessFlagFrame
    /\ SessFrame

\* A poll of the operation of session u gets True from its cancel_check: the
\* call raises CancellationError and the stream ends
SessPollCancelled(u) ==
    /\ sessOp[u] # "idle"
    /\ guiFlag                                   \* _cancel_event.is_set()
    /\ sessOp' = [sessOp EXCEPT ![u] = "idle"]
    /\ sessEnd' = [sessEnd EXCEPT ![u] = "CancellationError"]
    /\ sessStopped' = sessStopped
    /\ UNCHANGED <<guiFlag, sessClicks>>
    /\ SessFlagFrame
    /\ SessFrame

\* The operation of session u ends by itself: a result or an error of its worker
\* (seen by the loop at is_alive(), before any cancel_check)
SessFinish(u) ==
    /\ sessOp[u] # "idle"
    /\ \E e \in {"result", "APIError"} : sessEnd' = [sessEnd EXCEPT ![u] = e]
    /\ sessOp' = [sessOp EXCEPT ![u] = "idle"]
    /\ sessStopped' = sessStopped
    /\ UNCHANGED <<guiFlag, sessClicks>>
    /\ SessFlagFrame
    /\ SessFrame

SessionsNext ==
    \E u \in Sessions :
        \/ SessGenerateClick(u) \/ SessOptimizeClick(u) \/ SessStopClick(u)
        \/ SessPollCancelled(u) \/ SessFinish(u)

SpecSessions == Init /\ [][SessionsNext]_vars


----------------------------------------------------------------------------
\* The Optimized-prompt box (ui/gradio_app.py): the Generate and Optimize
\* handlers of one session, the components they read at the click and the
\* components each of their yields writes.  Texts are sequences of characters.

BoxPrompts == {<<>>, <<"c", "a", "t">>, <<"d", "o", "g">>}
BoxRefHashes == {None, Some("h")}
\* What the user can type into the Optimized-prompt box
BoxTyped == {<<>>, <<" ">>, <<"m", "y", " ">>}

\* _initial_optimized_for_state
InitialOptimizedForState == <<<<>>, None>>

\* What optimize_prompt(prompt, reference_hash=ref_hash) returns when it
\* succeeds: a text written for that prompt and, with a reference, under the
\* reference instruction
Optimized(prompt, ref_hash) ==
    <<"+">> \o prompt \o (IF ref_hash = None THEN <<>> ELSE <<"#">>)

BoxFrame == UNCHANGED <<callVars, seenVars, procVars, opVars, flagVars, cacheVars,
                        lockVars, regVars, gcVars, entryVars, reqVars, cfgVars, sessVars>>

BoxUi == UNCHANGED <<prompt_tb, ref_image, optimize_cb>>
BoxLastRun == UNCHANGED <<boxBranch, boxOptimizeOn, boxMatched>>
BoxLastSent == UNCHANGED <<boxSent, boxSentFor>>
BoxLocals == UNCHANGED <<gsPrompt, gsRefHash, gsOptText, gsBoxValue, gsState, gsEffective>>

\* `if not prompt or not prompt.strip()` and validate_prompt(prompt): the
\* streams yield a message and return
PromptRejected(prompt) ==
    prompt = <<>> \/ Strip(prompt) = <<>> \/ ValidatePrompt(prompt) # NoError

\* The handler has returned: its locals are gone
BoxReturned ==
    /\ gsPrompt' = <<>> /\ gsRefHash' = None /\ gsOptText' = <<>> /\ gsBoxValue' = <<>>
    /\ gsState' = InitialOptimizedForState /\ gsEffective' = <<>>

\* state_matches of _run_generate_stream
StateMatches(state, prompt, ref_hash) == state[1] = prompt /\ state[2] = ref_hash

\* The user edits the Prompt textbox
BoxEditPrompt ==
    /\ \E t \in BoxPrompts : t # prompt_tb /\ prompt_tb' = t
    /\ UNCHANGED <<ref_image, optimize_cb, optimized_tb, optimized_for_state, boxPc,
                   boxClicks>>
    /\ BoxLocals /\ BoxLastRun /\ BoxLastSent
    /\ BoxFrame

\* The user sets, changes or removes the reference image
BoxEditReference ==
    /\ \E r \in BoxRefHashes : r # ref_image /\ ref_image' = r
    /\ UNCHANGED <<prompt_tb, optimize_cb, optimized_tb, optimized_for_state, boxPc,
                   boxClicks>>
    /\ BoxLocals /\ BoxLastRun /\ BoxLastSent
    /\ BoxFrame

\* The user toggles the Optimize checkbox
BoxToggleOptimize ==
    /\ optimize_cb' = ~optimize_cb
    /\ UNCHANGED <<prompt_tb, ref_image, optimized_tb, optimized_for_state, boxPc,
                   boxClicks>>
    /\ BoxLocals /\ BoxLastRun /\ BoxLastSent
    /\ BoxFrame

\* The user types into the Optimized-prompt box (no handler: the gr.State stays)
BoxEditOptimized ==
    /\ boxPc = "idle"
    /\ \E t \in BoxTyped : t # optimized_tb /\ optimized_tb' = t
    /\ UNCHANGED <<prompt_tb, ref_image, optimize_cb, optimized_for_state, boxPc,
                   boxClicks>>
    /\ BoxLocals /\ BoxLastRun /\ BoxLastSent
    /\ BoxFrame

\* _generate_click_handler up to the first yield of _run_generate_stream that
\* is not followed by a return: the early returns (blank prompt, config,
\* validate_prompt, reference image, description) and the choice of the branch
BoxGenerateClick ==
    /\ boxPc = "idle"
    /\ boxClicks < MaxBoxClicks
    /\ boxClicks' = boxClicks + 1
    /\ LET state == optimized_for_state
           box_value == Strip(optimized_tb)
           matches == StateMatches(state, prompt_tb, ref_image)
       IN  /\ optimized_tb' = box_value
           /\ optimized_for_state' = state
           /\ \E early \in BOOLEAN :
                IF PromptRejected(prompt_tb) \/ early
                THEN /\ boxPc' = "idle"
                     /\ BoxReturned
                     /\ BoxLastRun
                     /\ BoxLastSent
                ELSE /\ boxSent' = None
                     /\ boxSentFor' = <<prompt_tb, ref_image>>
                     /\ gsPrompt' = prompt_tb
                     /\ gsRefHash' = ref_image
                     /\ gsOptText' = optimized_tb
                     /\ gsBoxValue' = box_value
                     /\ gsState' = state
                     /\ boxOptimizeOn' = optimize_cb
                     /\ boxMatched' = matches
                     /\ IF box_value # <<>> /\ matches
                        THEN /\ gsEffective' = box_value
                             /\ boxBranch' = "box"
                             /\ boxPc' = "generating"
                        ELSE IF GuiWillOptimize(box_value # <<>>, matches, optimize_cb)
                        THEN /\ gsEffective' = <<>>
                             /\ boxBranch' = "optimize"
                             /\ boxPc' = "optimizing"
                        ELSE /\ gsEffective' = prompt_tb
                             /\ boxBranch' = "raw"
                             /\ boxPc' = "generating"
    /\ BoxUi
    /\ BoxFrame

\* optimize_prompt returns or raises in _run_generate_stream: on success
\* box_value and state are replaced and the "Generating" yield writes them
BoxGenerateOptimized ==
    /\ boxPc = "optimizing"
    /\ \E ok \in BOOLEAN :
        IF ok
        THEN /\ gsEffective' = Optimized(gsPrompt, gsRefHash)
             /\ gsBoxValue' = Optimized(gsPrompt, gsRefHash)
             /\ gsState' = <<gsPrompt, gsRefHash>>
             /\ optimized_tb' = Optimized(gsPrompt, gsRefHash)
             /\ optimized_for_state' = <<gsPrompt, gsRefHash>>
             /\ boxPc' = "generating"
             /\ UNCHANGED <<gsPrompt, gsRefHash, gsOptText>>
        ELSE /\ optimized_tb' = gsBoxValue
             /\ optimized_for_state' = gsState
             /\ boxPc' = "idle"
             /\ BoxReturned
    /\ UNCHANGED boxClicks
    /\ BoxUi /\ BoxLastRun /\ BoxLastSent
    /\ BoxFrame

\* The last yield of the Generate handler: box_value and state from the
\* stream when generate_image returned and the image was saved, or raised one
\* of the exceptions the stream catches; opt_text and state from the handler's
\* except branches when another exception left the stream (Image.open on the
\* response body, image.save)
BoxGenerateRequest(how) ==
    /\ optimized_tb' = IF how = "escaped" THEN gsOptText ELSE gsBoxValue
    /\ optimized_for_state' = gsState

\* generate_image(effective_prompt, ...) and what follows it
BoxGenerateDone ==
    /\ boxPc = "generating"
    /\ boxSent' = Some(gsEffective)
    /\ boxSentFor' = <<gsPrompt, gsRefHash>>
    /\ \E how \in {"saved", "caught", "escaped"} : BoxGenerateRequest(how)
    /\ boxPc' = "idle"
    /\ BoxReturned
    /\ UNCHANGED boxClicks
    /\ BoxUi /\ BoxLastRun
    /\ BoxFrame

\* _optimize_click_handler up to the "Optimizing" yield of
\* _run_optimize_only_stream: every yield before the result empties the box
BoxOptimizeClick ==
    /\ boxPc = "idle"
    /\ boxClicks < MaxBoxClicks
    /\ boxClicks' = boxClicks + 1
    /\ optimized_tb' = <<>>
    /\ optimized_for_state' = optimized_for_state
    /\ \E early \in BOOLEAN :
         IF PromptRejected(prompt_tb) \/ early
         THEN /\ boxPc' = "idle"
              /\ BoxReturned
         ELSE /\ boxPc' = "opt_only"
              /\ gsPrompt' = prompt_tb
              /\ gsRefHash' = ref_image
              /\ gsState' = optimized_for_state
              /\ UNCHANGED <<gsOptText, gsBoxValue, gsEffective>>
    /\ BoxUi /\ BoxLastRun /\ BoxLastSent
    /\ BoxFrame

\* optimize_prompt returns or raises in _run_optimize_only_stream
BoxOptimizeDone ==
    /\ boxPc = "opt_only"
    /\ \E ok \in BOOLEAN :
        IF ok
        THEN /\ optimized_tb' = Optimized(gsPrompt, gsRefHash)
             /\ optimized_for_state' = <<gsPrompt, gsRefHash>>
        ELSE /\ optimized_tb' = <<>>
             /\ optimized_for_state' = gsState
    /\ boxPc' = "idle"
    /\ BoxReturned
    /\ UNCHANGED boxClicks
    /\ BoxUi /\ BoxLastRun /\ BoxLastSent
    /\ BoxFrame

\* Stop: the click cancels the running Generate / Optimize event
\* (cancels=[gen_ev, opt_ev]), whose generator yields nothing more
BoxStopClick ==
    /\ boxPc # "idle"
    /\ boxPc' = "idle"
    /\ BoxReturned
    /\ UNCHANGED <<optimized_tb, optimized_for_state, boxClicks>>
    /\ BoxUi /\ BoxLastRun /\ BoxLastSent
    /\ BoxFrame

BoxNext ==
    \/ BoxEditPrompt \/ BoxEditReference \/ BoxToggleOptimize \/ BoxEditOptimized
    \/ BoxGenerateClick \/ BoxGenerateOptimized \/ BoxGenerateDone
    \/ BoxOptimizeClick \/ BoxOptimizeDone \/ BoxStopClick

SpecBox == Init /\ [][BoxNext]_vars


----------------------------------------------------------------------------
\* Properties

NonInterrupt == {"Exception", "CancellationError"}

\* C1: once a poll has got True from cancel_check(), the call ends with
\* CancellationError and nothing else: it returns no value and raises no
\* error of the worker, also when the worker finishes before the raise.
C1_CancelObservedOnlyCancellation ==
    observedTrue =>
        /\ outcome \in {"none", "CancellationError"}
        /\ retval = None
        /\ ctl \in {"cancelled", "join5", "done"}
        /\ (ctl = "done" => outcome = "CancellationError")

\* C1 witness: the worker stored a result and ended after the poll saw True,
\* and the call still raised CancellationError.
C1_Witness ==
    /\ observedTrue /\ outcome = "CancellationError"
    /\ worker = "dead" /\ result_holder # None /\ flagAtExit = "set"

\* C2: when a cancelled optimization raises CancellationError, the ollama
\* subprocess the controller sent terminate() to is no longer running (it was
\* killed after the grace period if needed, and waited for).
C2_SubprocessGoneAtRaise ==
    (kind = "optimize" /\ outcome = "CancellationError" /\ termSent) =>
        proc # "running"

\* C3: an exception of cancel_check() other than KeyboardInterrupt never
\* reaches the caller; it counts as "not cancelled", so a call in which no poll
\* got True and no interrupt was raised ends with the worker's outcome.
C3_CheckExceptionAbsorbed ==
    /\ escaped \notin NonInterrupt
    /\ (/\ ctl = "done" /\ worker # "none"
        /\ checkRaised # {} /\ checkRaised \subseteq NonInterrupt
        /\ ~observedTrue)
       => outcome \notin {"CancellationError", "KeyboardInterrupt"}

\* C4: a KeyboardInterrupt raised by cancel_check() leaves the call at that
\* poll as a KeyboardInterrupt: it is not absorbed, and it becomes neither a
\* CancellationError nor a result.
C4_InterruptPropagates ==
    ("KeyboardInterrupt" \in checkRaised) =>
        /\ ctl = "done"
        /\ outcome = "KeyboardInterrupt"
        /\ escaped = "KeyboardInterrupt"
        /\ retval = None

\* C4 witness: an earlier poll's ordinary exception was absorbed, the
\* interrupt of a later poll was not.
C4_Witness ==
    /\ checkRaised = {"Exception", "KeyboardInterrupt"}
    /\ outcome = "KeyboardInterrupt" /\ kind = "optimize"

\* What the call gives back when the loop was left because the worker ended
WorkerOutcomeReturned ==
    IF exc_holder # None
    THEN outcome = exc_holder[1] /\ retval = None
    ELSE IF kind = "optimize"
    THEN IF returncode = 0 /\ stdout = "opt"
         THEN outcome = "result" /\ retval = Some("opt")
         ELSE outcome = "APIError" /\ retval = None
    ELSE outcome = "result" /\ retval = result_holder /\ retval # None

\* C5 amended: a worker found finished (is_alive() false) gives exactly its
\* result or its stored error, cancel_check() is not consulted at that poll,
\* and a flag that is set only after the controller has found the worker
\* finished never gives CancellationError.
C5_FinishedWorkerWins ==
    sawDead =>
        /\ ~checkedThisPoll
        /\ outcome \notin {"CancellationError", "KeyboardInterrupt"}
        /\ (ctl = "done" => WorkerOutcomeReturned)

\* C5 as claimed: the same, and a flag that is set only after the worker has
\* finished (it was clear when the worker thread ended) never gives
\* CancellationError.
C5_Original ==
    /\ C5_FinishedWorkerWins
    /\ (flagAtExit = "clear" => outcome # "CancellationError")

\* C5 witness: the flag was clear when the worker ended and set when the
\* controller returned the worker's result.
C5_Witness ==
    /\ sawDead /\ ctl = "done" /\ outcome = "result"
    /\ cb = "gui" /\ guiFlag /\ flagAtExit = "clear"

\* C6: a call has one outcome, fixed by what the controller detects first:
\* the worker's timeout gives RequestTimeoutError, a poll that gets True gives
\* CancellationError, and neither gives back a value.
C6_FirstDetectedWins ==
    /\ (ctl = "done" /\ firstDetected = "timeout") => outcome = "RequestTimeoutError"
    /\ (ctl = "done" /\ firstDetected = "cancel") => outcome = "CancellationError"
    /\ outcome \in {"RequestTimeoutError", "CancellationError"} => retval = None
    /\ firstDetected = "timeout" => ~observedTrue
    /\ firstDetected = "cancel" => ~sawDead

\* C6 witness: the timeout was detected first although the flag is set by now.
C6_Witness ==
    /\ ctl = "done" /\ firstDetected = "timeout" /\ outcome = "RequestTimeoutError"
    /\ cb = "cli" /\ cliFlag

\* C7: on one sequence of worker events and cancel_check() outcomes the three
\* loops reach the same outcome at the same poll.
C7_LoopsAgree ==
    \A k1, k2 \in LockKinds :
        lockCtl[k1] = lockCtl[k2] /\ lockPoll[k1] = lockPoll[k2]

OpRunning == opType \in {"cli_generate", "gui_generate", "gui_optimize"}
                /\ opStage \notin {"idle", "ended"}
OpFlag == IF opType = "cli_generate" THEN cliFlag ELSE guiFlag

\* C8: an operation's flag is clear from its start until a trigger arrives, so
\* an operation ends with CancellationError only after a trigger that came
\* after its reset; ending an operation leaves both flags as they are.
C8_ResetAtStartOnly ==
    /\ [](OpRunning /\ ~trigAfterReset => ~OpFlag)
    /\ [](opType # "lib" /\ opOutcome = "CancellationError" => trigAfterReset)
    /\ [][(opStage # "ended" /\ opStage' = "ended")
            => (cliFlag' = cliFlag /\ guiFlag' = guiFlag)]_vars

\* C8 witness: the flag was still set from before, the operation started, no
\* trigger came, and its generation stage returned an image.
C8_Witness ==
    /\ staleAtStart /\ ~trigAfterReset /\ nOps = 2
    /\ opType = "gui_generate" /\ opStage = "ended" /\ opOutcome = "result"
    /\ guiFlag = FALSE

\* C9: a generation request exists only after the optimization stage is over
\* and, when there was one, returned; the ollama subprocess is not running
\* while the operation is in its generation stage.
C9_OptimizeBeforeGenerate ==
    /\ opStage = "generating" =>
        /\ proc # "running"
        /\ kind \in HttpKinds
        /\ optOutcome = IF opOptimize THEN "result" ELSE "none"
    /\ (OpRunning /\ kind \in HttpKinds) => opStage = "generating"
    /\ (optOutcome \notin {"none", "result"}) => opStage = "ended"

\* C9 witness: the optimizer's subprocess ran and exited, and the generation
\* request is in flight.
C9_Witness ==
    /\ opStage = "generating" /\ worker = "request"
    /\ optOutcome = "result" /\ proc = "exited"

\* C10: get right after set with the same triple gives the stored value, and
\* get with a triple that differs from it in one field (and was not stored
\* itself) gives None.
DiffersInOneField(t, u) ==
    Cardinality({i \in 1..3 : t[i] # u[i]}) = 1

C10_SetGetRoundTrip ==
    (lastSet # <<>> /\ lastGet # <<>>) =>
        LET t == lastSet[1]
            u == lastGet[1]
        IN  /\ (u = t => lastGet[2] = Some(lastSet[2]))
            /\ (DiffersInOneField(t, u) /\ u \notin everSet => lastGet[2] = None)

\* C11: the key of (p, m, no reference hash) differs from the key of (p, m, h)
\* for every string h, the empty one included: a value stored without a
\* reference is not returned by a lookup that gives a reference hash, nor a
\* value stored with a reference hash by a lookup that gives none.
C11_NoReferenceKeyDistinct ==
    (lastSet # <<>> /\ lastGet # <<>>) =>
        LET t == lastSet[1]
            u == lastGet[1]
        IN  (/\ t[1] = u[1] /\ t[2] = u[2]
             /\ (t[3] = None) # (u[3] = None))
            => /\ GenerateKey(t[1], t[2], t[3]) # GenerateKey(u[1], u[2], u[3])
               /\ (u \notin everSet => lastGet[2] = None)

\* The optimizer's subprocess of this call ran to its end with a usable output
RunSucceeded ==
    /\ kind = "optimize" /\ opOptimize
    /\ proc = "exited" /\ returncode = 0 /\ PyStrip(stdout) # ""
    /\ ~observedTrue

\* C12: the cache gains or changes an entry only in the step that ends a
\* successful optimizer run (never on cancellation, timeout, non-zero exit or
\* empty output, nor when no optimizer runs), the entry is the one of the
\* call's triple, and entries disappear only in a clear(), which is no step of
\* an optimizer call; otherwise the number of entries does not decrease.
C12_CacheGrowsOnSuccessOnly ==
    /\ [][cache' # cache /\ ~(DOMAIN cache' \subseteq DOMAIN cache /\ cache' = EmptyCache) =>
            /\ RunSucceeded'
            /\ outcome # "result" /\ outcome' = "result" /\ retval' # None
            /\ DOMAIN cache \subseteq DOMAIN cache'
            /\ DOMAIN cache' = DOMAIN cache
                                 \cup {GenerateKey(opTriple[1], opTriple[2], opTriple[3])}
            /\ \A k \in DOMAIN cache :
                 k # GenerateKey(opTriple[1], opTriple[2], opTriple[3]) => cache'[k] = cache[k]]_vars
    /\ [][~(DOMAIN cache \subseteq DOMAIN cache') =>
            /\ cache' = EmptyCache
            /\ UNCHANGED <<callVars, procVars, opVars>>]_vars
    /\ [][outcome' \in {"CancellationError", "RequestTimeoutError", "APIError",
                        "KeyboardInterrupt", "FileNotFoundError"}
          /\ outcome' # outcome => cache' = cache]_vars

\* C12 witness: an entry stored by an earlier run is still there after a
\* later run was cancelled.
C12_Witness ==
    /\ nOps = 2 /\ kind = "optimize" /\ outcome = "CancellationError"
    /\ Cardinality(DOMAIN cache) = 1 /\ termSent

\* C13: a successful optimizer run leaves its result in the cache under the
\* call's (prompt, model, reference_hash), with enable_cache=False too; a call
\* with enable_cache=False returns a value only after its own subprocess ran;
\* a call with caching enabled whose triple is in the cache returns the stored
\* value and starts no thread and no subprocess.
C13_SuccessAlwaysCached ==
    /\ [][(kind = "optimize" /\ outcome # "result" /\ outcome' = "result" /\ proc' # "none")
            => CacheLookup(cache', opTriple[1], opTriple[2], opTriple[3]) = retval']_vars
    /\ []((kind = "optimize" /\ opForce /\ outcome = "result") => RunSucceeded)
    /\ [][(/\ kind = "optimize" /\ ctl = "enter" /\ ctl' # "enter" /\ ~opForce
           /\ Truthy(CacheLookup(cache, opTriple[1], opTriple[2], opTriple[3])))
            => /\ outcome' = "result"
               /\ retval' = CacheLookup(cache, opTriple[1], opTriple[2], opTriple[3])
               /\ worker' = "none" /\ proc' = "none"]_vars

\* C13 witness: a run with enable_cache=False stored its result, and the next
\* call with the same triple and caching enabled returned it with no subprocess.
C13_Witness ==
    /\ nOps = 2 /\ opType = "lib" /\ kind = "optimize" /\ ~opForce
    /\ outcome = "result" /\ retval = Some("opt") /\ proc = "none" /\ worker = "none"
    /\ opTriple \in everSet

Count(seq, x) == Cardinality({i \in 1..Len(seq) : seq[i] = x})
Last(seq) == seq[Len(seq)]

\* C14: in every registry, get of an id that was never registered is None,
\* and however often an id was registered, provider_ids() holds it exactly
\* once and get gives the implementation registered last; the result of a
\* get() call is None or an implementation, never an error.
C14_RegisterIdempotentPerId ==
    /\ \A i \in 1..Len(regHeap) : \A id \in RegIds :
         IF regHistory[i][id] = <<>>
         THEN /\ RegistryGet(regHeap[i], id) = None
              /\ Count(RegistryProviderIds(regHeap[i]), id) = 0
         ELSE /\ RegistryGet(regHeap[i], id) = Some(Last(regHistory[i][id]))
              /\ Count(RegistryProviderIds(regHeap[i]), id) = 1
    /\ (regResult # <<>> /\ regResult[1] = "get") =>
         LET h == regHistory[regResult[2]][regResult[3]]
         IN  regResult[4] = IF h = <<>> THEN None ELSE Some(Last(h))
    /\ (regResult # <<>> /\ regResult[1] = "provider_ids") =>
         \A id \in RegIds :
            Count(regResult[4], id) = IF regHistory[regResult[2]][id] = <<>> THEN 0 ELSE 1

\* C14 witness: "x" was registered twice with different implementations and
\* get("x") returned the second; a get of a never-registered id returned None.
C14_Witness ==
    /\ regResult # <<>> /\ regResult[1] = "get" /\ regResult[3] = "x"
    /\ regHistory[regResult[2]]["x"] = <<"A", "B">>
    /\ regResult[4] = Some("B")

\* C15: nothing is registered before the first get_registry() call; the two
\* built-in providers are registered once each, whatever the interleaving of
\* the threads calling get_registry(); every call returns the same registry,
\* and the registry it returns holds both providers.
C15_BuiltinsRegisteredOnce ==
    /\ regCalls = 0 => (builtinRegs = 0 /\ regHeap = <<>> /\ ~builtins_registered)
    /\ builtinRegs <= 2
    /\ \A r1, r2 \in regReturned : r1[1] = r2[1]
    /\ \A r \in regReturned : KNOWN_IMAGE_PROVIDERS \subseteq r[2]

\* C16: whatever the interleaving of the threads, first get_cache() calls
\* included, the set, get, clear and size calls of all threads behave as calls
\* on one cache: a get returns the value of the last completed set of its key
\* since the last clear (None when there is none), and size() is the number of
\* keys stored that way.
C16_OneConsistentCache ==
    /\ (gcResult # <<>> /\ gcResult[1] = "get") =>
         gcResult[3] = CacheLookup(gcExpect, gcResult[2][1], gcResult[2][2], gcResult[2][3])
    /\ (gcResult # <<>> /\ gcResult[1] = "size") =>
         gcResult[3] = Cardinality(DOMAIN gcExpect)

BlankPrompt(prompt) == prompt = <<>> \/ Strip(prompt) = <<>>
MalformedKey(key) == key = <<>> \/ ~StartsWith(key, <<"s", "k", "-">>)
InGenerateImage == ePc \in {"gen_request", "gen_wait"}

\* C17: on the CLI and GUI paths, a reference image (to be sent as such) with
\* a provider that takes none is never processed, never followed by a
\* generation request, with or without the image, and the request ends with a
\* ValidationError naming the provider once its configuration is accepted.
C17_UnsupportedReferenceRejected ==
    (/\ ePath \in {"cli", "gui"}
     /\ eReference /\ ~eUseDesc /\ ~SupportsReferenceImage(eProvider))
    => /\ ~eProcessed
       /\ ~eHttp /\ ~eThread /\ ~InGenerateImage
       /\ eOutcome # "result"
       /\ (/\ ePc = "done"
           /\ ConfigValidate(eProvider, eCfgKey) = NoError
           /\ ValidatePrompt(ePrompt) = NoError)
            => (eOutcome = "ValidationError" /\ eNamed = eProvider)

\* C18: a generate_image call whose provider id is not registered makes no
\* provider call, starts no thread and sends no request; it ends with a
\* ValidationError, which names the id unless the prompt was rejected first.
C18_UnknownProviderRejected ==
    (ePath = "lib" /\ eProvider \notin KNOWN_IMAGE_PROVIDERS)
    => /\ ~eProviderCalled /\ ~eHttp /\ ~eThread
       /\ ePc = "done" => eOutcome = "ValidationError"
       /\ (/\ ePc = "done" /\ ~BlankPrompt(ePrompt)
           /\ EffectiveApiKey(eApiKeyArg, eCfgKey) # <<>>) => eNamed = eProvider

\* C19: generation through the hosted provider (generate_image or
\* OpenRouterProvider.generate) with an effective API key that is empty or
\* does not start with "sk-" sends no HTTP request and ends with a
\* ValidationError, never with NetworkError or APIError.
C19_MalformedKeyRejected ==
    (/\ ePath \in {"lib", "provider"}
     /\ MalformedKey(EffectiveApiKey(eApiKeyArg, eCfgKey)))
    => /\ ~eHttp
       /\ ePc = "done" => eOutcome = "ValidationError"

\* C20: generate_image with an empty or whitespace-only prompt ends with
\* ValidationError, field "prompt"; no request is sent and no worker thread is
\* started.
C20_BlankPromptRejected ==
    /\ (ePath = "lib" /\ BlankPrompt(ePrompt))
         => (~eHttp /\ ~eThread /\ ~InGenerateImage)
    /\ (ePath = "lib" /\ BlankPrompt(ePrompt) /\ ePc # "gen_enter")
         => /\ ePc = "done"
            /\ eOutcome = "ValidationError" /\ eField = "prompt"

\* C20 witness: a whitespace-only prompt with a usable key and a cancel_check
\* was rejected by generate_image.
C20_Witness ==
    /\ ePath = "lib" /\ ePc = "done" /\ ePrompt = <<" ", "\n">>
    /\ eCfgKey = <<"s", "k", "-", "o", "k">> /\ eCb
    /\ eOutcome = "ValidationError" /\ eField = "prompt" /\ ~eThread /\ ~eHttp

C24_HadReferenceMatchesPayload ==
    qOutcome = "result" => (qHadRef <=> qImagePart)

\* C22: when an optimization call ends with RequestTimeoutError, its ollama
\* subprocess was killed and has been waited for: it has exited, in the
\* cancellable path and in the synchronous one.
C22_TimedOutProcessReaped ==
    (kind = "optimize" /\ outcome = "RequestTimeoutError")
        => (killSent /\ proc = "exited")

\* C23: set_api_key is all or nothing.  With an empty key or one that does
\* not start with "sk-" it raises ConfigurationError and the Config is as it
\* was (key and validated flag included); with a valid key it returns, the key
\* is the new one and is_valid() is false.  The flag becomes true again only by
\* a validate() that returns.
C23_SetApiKeyAllOrNothing ==
    /\ [](cfgLast # <<>> /\ cfgLast[1] = "set_api_key"
            => IF cfgLast[2] = <<>> \/ ~StartsWith(cfgLast[2], <<"s", "k", "-">>)
               THEN /\ cfgRaised = "ConfigurationError"
                    /\ cfg = cfgPrev
               ELSE /\ cfgRaised = "none"
                    /\ cfg.openrouter_api_key = cfgLast[2]
                    /\ ~IsValid(cfg))
    /\ [][(cfg # NoConfig /\ ~IsValid(cfg) /\ IsValid(cfg'))
            => (cfgLast'[1] = "validate" /\ cfgRaised' = "none")]_vars

\* C23 witness: a validated Config whose set_api_key("bad") raised and left it
\* validated with its key
C23_Witness ==
    /\ cfgLast = <<"set_api_key", <<"b", "a", "d">> >>
    /\ cfgRaised = "ConfigurationError"
    /\ IsValid(cfg) /\ cfg.openrouter_api_key = <<"s", "k", "-", "o", "k">>

\* C30: after any calls of validate(), set_api_key(), set_image_model() and
\* set_optimization_model(), returned or raised, is_valid() is true only if the
\* fields the Config has now pass every check of validate().
C30_IsValidOnlyIfFieldsPass ==
    (cfg # NoConfig /\ IsValid(cfg)) => ConfigValidateAll(cfg) = NoError

\* C30 witness: a validated Config after a set_image_model that returned
C30_Witness ==
    /\ cfg # NoConfig /\ IsValid(cfg)
    /\ cfgLast = <<"set_image_model", "n">> /\ cfgRaised = "none"
    /\ cfg.default_image_model = "n"

InLoop == ctl \in {"join", "alive", "poll", "cancelled", "join5", "after"}

\* C25: the controller of a cancellable call never waits without bound.  With
\* the controller thread scheduled fairly, a call in its loop whose worker
\* thread has ended reaches a terminal outcome, and so does a call whose poll
\* got True from cancel_check(), whatever cancel_check() raised before and
\* whether or not the worker or its subprocess ever ends.
C25_ControllerNeverBlocks ==
    /\ (InLoop /\ worker = "dead") ~> (ctl = "done")
    /\ (InLoop /\ observedTrue) ~> (ctl = "done" /\ outcome # "none")

\* C25 witness: a cancelled optimization whose cancel_check had raised at an
\* earlier poll and whose worker had not ended when CancellationError was raised
C25_Witness ==
    /\ kind = "optimize" /\ ctl = "done" /\ outcome = "CancellationError"
    /\ observedTrue /\ "Exception" \in checkRaised
    /\ process_holder /\ worker # "dead"

\* The polls of the call so far all returned False
AlwaysFalseSoFar == cb # "none" /\ ~observedTrue /\ checkRaised = {}

\* What happened to the subprocess of the cancellable call
WorkerEvent ==
    IF proc = "none" THEN "not_found"
    ELSE IF exc_holder = Some("RequestTimeoutError") THEN "timeout"
    ELSE "exited"

\* C28: a call whose cancel_check returned False at every poll ends as the
\* synchronous path ends for the same worker outcome: the same result or the
\* same kind of error, and the same change of the prompt cache.
C28_AlwaysFalseEqualsSync ==
    [][(ctl = "after" /\ ctl' = "done" /\ AlwaysFalseSoFar)
        => IF kind = "optimize"
           THEN LET r == RunOllamaSync(WorkerEvent, returncode, stdout)
                IN  /\ outcome' = r.outcome
                    /\ retval' = r.value
                    /\ cache' = IF r.outcome = "result"
                                THEN CacheStore(cache, opTriple[1], opTriple[2],
                                                r.value[1], opTriple[3])
                                ELSE cache
           ELSE /\ outcome' \in {"result"} \cup HttpWorkerErrors
                /\ outcome' = (IF exc_holder # None THEN exc_holder[1] ELSE "result")
                /\ cache' = cache]_vars

\* C29: when the controller found no published subprocess handle at the time
\* it observed the cancellation (so it sent no terminate), no ollama subprocess
\* of the call is running once CancellationError has been raised.
C29_NoOrphanWhenHandleUnpublished ==
    (kind = "optimize" /\ outcome = "CancellationError" /\ ~termSent)
        => proc # "running"

\* C26: with two GUI sessions, an operation is cancelled only by a Stop of its
\* own session, and a Stop requested for an operation that is still running
\* stays requested: no other session's start-of-operation reset erases it.
C26_CancellationPerSession ==
    \A u \in Sessions :
        /\ (sessEnd[u] = "CancellationError") => sessStopped[u]
        /\ (sessOp[u] # "idle" /\ sessStopped[u]) => guiFlag

\* C27: in the GUI Generate flow, the text of the Optimized-prompt box is the
\* prompt passed to the provider only when the recorded optimized-for state
\* equals the current (prompt, reference hash); otherwise the prompt passed
\* is the one optimized in this run when Optimize is on, the raw prompt when
\* it is off; the recorded state is replaced only by a successful
\* optimization; and a text optimized for another (prompt, reference hash) is
\* never passed for the current one.
C27_NoStaleOptimizedPromptSent ==
    /\ [](boxSent # None =>
            /\ boxBranch = "box" => boxMatched
            /\ boxBranch # "box" =>
                 boxSent = Some(IF boxOptimizeOn
                                THEN Optimized(boxSentFor[1], boxSentFor[2])
                                ELSE boxSentFor[1])
            /\ \A p \in BoxPrompts, r \in BoxRefHashes :
                 boxSent = Some(Optimized(p, r)) => <<p, r>> = boxSentFor)
    /\ [][optimized_for_state' # optimized_for_state =>
            /\ boxPc \in {"optimizing", "opt_only"}
            /\ optimized_for_state' = <<gsPrompt, gsRefHash>>
            /\ optimized_tb' = Optimized(gsPrompt, gsRefHash)]_vars

====
